---- MODULE Spec2Model ----
(***************************************************************************)
(* Chart inference pipeline of the PMO chart tooling:                      *)
(*   - render_chart_html_from_dataset (chart_renderer.py): record          *)
(*     profiling, chart-type selection and series building;                *)
(*   - try_merge_plan_timeseries (pmo_client_LLM.claude.py): alignment of  *)
(*     the results of a multi-step plan onto one sorted label axis.        *)
(*                                                                         *)
(* Python strings are sequences of one-character strings, so that lower(), *)
(* substring tests, regular expressions, str(), float() and sorted() are   *)
(* computed character by character.  Python values are tagged records      *)
(* [kind, val]; numbers are integers (float(n) of an int n is the same     *)
(* number).                                                                *)
(***************************************************************************)
EXTENDS Integers, Sequences, FiniteSets, TLC

(***************************************************************************)
(* Strings                                                                 *)
(***************************************************************************)
Digits == <<"0", "1", "2", "3", "4", "5", "6", "7", "8", "9">>

UpperCase == <<"A", "B", "C", "D", "E", "F", "G", "H", "I", "J", "K", "L", "M",
               "N", "O", "P", "Q", "R", "S", "T", "U", "V", "W", "X", "Y", "Z">>

LowerCase == <<"a", "b", "c", "d", "e", "f", "g", "h", "i", "j", "k", "l", "m",
               "n", "o", "p", "q", "r", "s", "t", "u", "v", "w", "x", "y", "z">>

\* The characters that occur in the model, in code-point order.
AsciiOrder == <<" ", ",", "-", ".">> \o Digits \o <<":">> \o UpperCase \o <<"_">> \o LowerCase

IndexIn(seq, c) == CHOOSE i \in 1..Len(seq) : seq[i] = c

InSeq(seq, c) == \E i \in 1..Len(seq) : seq[i] = c

\* ord(c), up to an order-preserving renumbering
Ord(c) == IndexIn(AsciiOrder, c)

IsDigit(c) == InSeq(Digits, c)

IsSpace(c) == c = " "

\* str.lower()
LowerChar(c) == IF InSeq(UpperCase, c) THEN LowerCase[IndexIn(UpperCase, c)] ELSE c

Lower(s) == [i \in 1..Len(s) |-> LowerChar(s[i])]

\* sub in s
Contains(s, sub) ==
    \E i \in 1..(Len(s) - Len(sub) + 1) : SubSeq(s, i, i + Len(sub) - 1) = sub

ContainsAny(s, subs) == \E sub \in subs : Contains(s, sub)

\* str.strip()
RECURSIVE LStrip(_)
LStrip(s) == IF s # <<>> /\ IsSpace(Head(s)) THEN LStrip(Tail(s)) ELSE s

RECURSIVE RStrip(_)
RStrip(s) ==
    IF s # <<>> /\ IsSpace(s[Len(s)]) THEN RStrip(SubSeq(s, 1, Len(s) - 1)) ELSE s

Strip(s) == RStrip(LStrip(s))

\* a < b for Python strings (code-point lexicographic order)
RECURSIVE StrLess(_, _)
StrLess(a, b) ==
    IF b = <<>> THEN FALSE
    ELSE IF a = <<>> THEN TRUE
    ELSE IF Ord(Head(a)) < Ord(Head(b)) THEN TRUE
    ELSE IF Ord(Head(a)) > Ord(Head(b)) THEN FALSE
    ELSE StrLess(Tail(a), Tail(b))

\* str(n) for an integer n
RECURSIVE NatToStr(_)
NatToStr(n) == IF n < 10 THEN <<Digits[n + 1]>> ELSE NatToStr(n \div 10) \o <<Digits[(n % 10) + 1]>>

IntToStr(n) == IF n < 0 THEN <<"-">> \o NatToStr(0 - n) ELSE NatToStr(n)

AllDigits(s) == s # <<>> /\ \A i \in 1..Len(s) : IsDigit(s[i])

RECURSIVE DigitsToNat(_)
DigitsToNat(s) ==
    IF s = <<>> THEN 0
    ELSE 10 * DigitsToNat(SubSeq(s, 1, Len(s) - 1)) + (IndexIn(Digits, s[Len(s)]) - 1)

(***************************************************************************)
(* Python values                                                           *)
(***************************************************************************)
None == [kind |-> "none", val |-> 0]

Num(n) == [kind |-> "num", val |-> n]

Str(s) == [kind |-> "str", val |-> s]

Raised == [kind |-> "raised", val |-> 0]

IsNone(v) == v.kind = "none"

\* isinstance(v, (int, float))
IsNumber(v) == v.kind = "num"

\* isinstance(v, str)
IsStr(v) == v.kind = "str"

\* str(v)
PyStr(v) ==
    IF IsStr(v) THEN v.val
    ELSE IF IsNumber(v) THEN IntToStr(v.val)
    ELSE <<"N", "o", "n", "e">>

\* Python truthiness of a scalar
Truthy(v) ==
    IF IsStr(v) THEN v.val # <<>>
    ELSE IF IsNumber(v) THEN v.val # 0
    ELSE FALSE

\* float(v): the number, or Raised where Python raises.  Strings are parsed
\* as an optionally signed run of digits surrounded by blanks; the values of
\* the model carry no fraction or exponent.
Float(v) ==
    IF IsNumber(v) THEN v
    ELSE IF IsStr(v) THEN
        LET t == Strip(v.val)
            body == IF t # <<>> /\ Head(t) \in {"-", "+"} THEN Tail(t) ELSE t
        IN  IF AllDigits(body)
            THEN Num(IF t # <<>> /\ Head(t) = "-" THEN 0 - DigitsToNat(body) ELSE DigitsToNat(body))
            ELSE Raised
    ELSE Raised

\* re.sub(r'[^0-9.\-]', '', s)
RECURSIVE StripNonNumeric(_)
StripNonNumeric(s) ==
    IF s = <<>> THEN <<>>
    ELSE IF IsDigit(Head(s)) \/ Head(s) \in {".", "-"}
         THEN <<Head(s)>> \o StripNonNumeric(Tail(s))
         ELSE StripNonNumeric(Tail(s))

\* re.match(r'^[\d,\.\-\s]+$', v.strip())
LooksNumeric(s) ==
    LET t == Strip(s)
    IN  t # <<>> /\ \A i \in 1..Len(t) : IsDigit(t[i]) \/ t[i] \in {",", ".", "-", " "}


(***************************************************************************)
(* String literals of the source                                           *)
(***************************************************************************)
S_month == <<"m", "o", "n", "t", "h">>

S_date == <<"d", "a", "t", "e">>

S_week == <<"w", "e", "e", "k">>

S_period == <<"p", "e", "r", "i", "o", "d">>

S_time == <<"t", "i", "m", "e">>

S_project == <<"p", "r", "o", "j", "e", "c", "t">>

S_name == <<"n", "a", "m", "e">>

S_title == <<"t", "i", "t", "l", "e">>

S_project_name == <<"p", "r", "o", "j", "e", "c", "t", "_", "n", "a", "m", "e">>

S_cumul == <<"c", "u", "m", "u", "l">>

S_cumulative == <<"c", "u", "m", "u", "l", "a", "t", "i", "v", "e">>

S_running_total == <<"r", "u", "n", "n", "i", "n", "g", "_", "t", "o", "t", "a", "l">>

S_total == <<"t", "o", "t", "a", "l">>

S_planned == <<"p", "l", "a", "n", "n", "e", "d">>

S_plan == <<"p", "l", "a", "n">>

S_budget == <<"b", "u", "d", "g", "e", "t">>

S_actual == <<"a", "c", "t", "u", "a", "l">>

S_spent == <<"s", "p", "e", "n", "t">>

S_spent_amount == <<"s", "p", "e", "n", "t", "_", "a", "m", "o", "u", "n", "t">>

S_cost == <<"c", "o", "s", "t">>

S_expense == <<"e", "x", "p", "e", "n", "s", "e">>

S_line == <<"l", "i", "n", "e">>

S_bar == <<"b", "a", "r">>

S_pie == <<"p", "i", "e">>

S_doughnut == <<"d", "o", "u", "g", "h", "n", "u", "t">>

S_donut == <<"d", "o", "n", "u", "t">>

S_Planned == <<"P", "l", "a", "n", "n", "e", "d">>

S_Actual == <<"A", "c", "t", "u", "a", "l">>

S_value == <<"v", "a", "l", "u", "e">>

S_x == <<"x">>

(***************************************************************************)
(* Field names and cell values of the input records                        *)
(***************************************************************************)
S_segment == <<"s", "e", "g", "m", "e", "n", "t">>

S_amount == <<"a", "m", "o", "u", "n", "t">>

S_overtime == <<"o", "v", "e", "r", "t", "i", "m", "e">>

S_hours == <<"h", "o", "u", "r", "s">>

S_hours_cumulative == <<"h", "o", "u", "r", "s", "_", "c", "u", "m", "u", "l", "a", "t", "i", "v", "e">>

S_scatter == <<"s", "c", "a", "t", "t", "e", "r">>

S_PadDonut == <<" ", "D", "o", "n", "u", "t">>

S_2024_01 == <<"2", "0", "2", "4", "-", "0", "1">>

S_2024_02 == <<"2", "0", "2", "4", "-", "0", "2">>

S_A == <<"A">>

S_B == <<"B">>

S_30 == <<"3", "0">>

S_1c5 == <<"1", ",", "5">>

S_7 == <<"7">>

(***************************************************************************)
(* Records: a Python dict is its keys in insertion order and its mapping;  *)
(* a list element that is no dict has isdict = FALSE.                      *)
(***************************************************************************)
\* label_field = None, name_field = None, category_field = None
NoKey == <<>>

Dict(keys, val) == [isdict |-> TRUE, keys |-> keys, val |-> val]

NotADict == [isdict |-> FALSE, keys |-> <<>>, val |-> <<>>]

Range(seq) == {seq[i] : i \in 1..Len(seq)}

\* k in r
HasKey(r, k) == k \in DOMAIN r.val

\* r.get(k, default)
Get(r, k, default) == IF HasKey(r, k) THEN r.val[k] ELSE default

\* the first key, in the dict's order, that passes the test (for ... break)
FirstKey(keys, Test(_)) ==
    LET hits == SelectSeq(keys, Test)
    IN  IF hits = <<>> THEN NoKey ELSE Head(hits)

(***************************************************************************)
(* render_chart_html_from_dataset: record normalisation and profiling      *)
(***************************************************************************)
\* data_obj: shape "list" (a list), "result" (a dict with a 'result' list),
\* "payload" (a dict with 'labels' and 'datasets'), "inner" (another dict, one
\* of whose values is a list), "map" (another dict, with no list value),
\* "result_falsy" ({'result': None}, 0 or ''), "result_number" ({'result': 5}),
\* "result_text" ({'result': 'abc'}), "scalar" (a number, a string, None)
\* line 26 iterates over records: a non-zero number is not iterable
NormalizeRaises(data_obj) == data_obj.shape = "result_number"

NormalizeRecords(data_obj) ==
    LET found == IF data_obj.shape \in {"result", "list", "inner"} THEN data_obj.items
                 ELSE <<>>
    IN  SelectSeq(found, LAMBDA r : r.isdict)

TimeTokens == {S_month, S_date, S_week, S_period, S_time}

NameTokens == {S_project, S_name, S_title, S_project_name}

CumulativeTokens == {S_cumul, S_cumulative, S_running_total, S_total}

PlannedTokens == {S_planned, S_plan, S_budget}

ActualTokens == {S_actual, S_spent, S_spent_amount, S_cost, S_expense}

IsTimeLike(key) == key # NoKey /\ ContainsAny(Lower(key), TimeTokens)

label_field(records) ==
    IF records = <<>> THEN NoKey
    ELSE FirstKey(records[1].keys, LAMBDA k : ContainsAny(Lower(k), TimeTokens))

name_field(records) ==
    IF records = <<>> THEN NoKey
    ELSE FirstKey(records[1].keys,
                  LAMBDA k : ContainsAny(Lower(k), NameTokens) /\ IsStr(Get(records[1], k, None)))

\* variant: the check of the name against the cumulative tokens is left out
numeric_fields_KeepingCumulative(records) ==
    IF records = <<>> THEN <<>>
    ELSE SelectSeq(records[1].keys,
                   LAMBDA k : k # label_field(records) /\ IsNumber(records[1].val[k]))

numeric_fields(records) ==
    IF records = <<>> THEN <<>>
    ELSE SelectSeq(records[1].keys,
                   LAMBDA k : /\ k # label_field(records)
                              /\ ~ContainsAny(Lower(k), CumulativeTokens)
                              /\ IsNumber(records[1].val[k]))

(***************************************************************************)
(* The explicit chart-type hint                                            *)
(***************************************************************************)
\* if chart_type: ... hint_flag = True
hint_flag(chart_type) == Truthy(chart_type)

\* chart_t after the hint is normalised (lines 63-78)
HintChartType(chart_type) ==
    IF Truthy(chart_type)
    THEN LET ct == Lower(Strip(PyStr(chart_type)))
         IN  IF ct \in {S_donut, S_doughnut} THEN S_doughnut
             ELSE IF ct \in {S_pie, S_bar, S_line, S_doughnut} THEN ct
             ELSE IF ct # <<>> THEN ct ELSE S_line
    ELSE S_line

(***************************************************************************)
(* Datasets.  A colour is a single string or a per-segment array.          *)
(***************************************************************************)
Scalar(c) == [arr |-> FALSE, c |-> <<c>>]

Array(cs) == [arr |-> TRUE, c |-> cs]

Dataset(label, data, bg, border, fill) ==
    [label |-> label, data |-> data, backgroundColor |-> bg, borderColor |-> border, fill |-> fill]

BarPalette == <<"#1f77b4", "#d62728", "#2ca02c", "#9467bd">>

PiePalette == <<"#1f77b4", "#ff7f0e", "#2ca02c", "#d62728", "#9467bd",
                "#8c564b", "#e377c2", "#7f7f7f", "#bcbd22", "#17becf">>

LinePalette == <<"#1f77b4", "#ff7f0e", "#2ca02c", "#d62728", "#9467bd">>

\* palette[idx % len(palette)], idx counted from 0
Cycle(palette, idx) == palette[(idx % Len(palette)) + 1]

\* float(x), with 0 where float raises
FloatOrZero(v) == IF Float(v).kind = "raised" THEN Num(0) ELSE Float(v)

\* the falsy values None, '' and 0 become 0 (x or 0)
OrZero(v) == IF Truthy(v) THEN v ELSE Num(0)

(***************************************************************************)
(* Grouped bars (lines 80-122)                                             *)
(***************************************************************************)
planned_keys(records) ==
    SelectSeq(records[1].keys, LAMBDA k : ContainsAny(Lower(k), PlannedTokens))

actual_keys(records) ==
    SelectSeq(records[1].keys, LAMBDA k : ContainsAny(Lower(k), ActualTokens))

\* variant: the bar rule without the test of the explicit hint
BarRuleFires_IgnoringHint(records, chart_type) ==
    /\ records # <<>>
    /\ name_field(records) # NoKey
    /\ planned_keys(records) # <<>> \/ actual_keys(records) # <<>>

\* variant: the bar rule asking for a planned and an actual column
BarRuleFires_NeedingBoth(records, chart_type) ==
    /\ records # <<>>
    /\ name_field(records) # NoKey
    /\ planned_keys(records) # <<>> /\ actual_keys(records) # <<>>
    /\ ~hint_flag(chart_type)

BarRuleFires(records, chart_type) ==
    /\ records # <<>>
    /\ name_field(records) # NoKey
    /\ planned_keys(records) # <<>> \/ actual_keys(records) # <<>>
    /\ ~hint_flag(chart_type)

extract_vals(records, keys) ==
    [i \in 1..Len(records) |->
        LET r == records[i]
            hits == SelectSeq(keys, LAMBDA k :
                        /\ HasKey(r, k)
                        /\ ~IsNone(r.val[k])
                        /\ ~(IsStr(r.val[k]) /\ r.val[k].val = <<>>))
        IN  IF hits = <<>> THEN Num(0) ELSE FloatOrZero(r.val[Head(hits)])]

BarLabels(records) ==
    [i \in 1..Len(records) |-> PyStr(Get(records[i], name_field(records), Str(<<>>)))]

\* variant: the Planned series is read from the actual columns
BarDatasets_PlannedFromActual(records) ==
    <<Dataset(S_Planned, extract_vals(records, actual_keys(records)),
              Scalar(BarPalette[1]), Scalar(BarPalette[1]), "unset"),
      Dataset(S_Actual, extract_vals(records, actual_keys(records)),
              Scalar(BarPalette[2]), Scalar(BarPalette[2]), "unset")>>

BarDatasets(records) ==
    LET planned == IF planned_keys(records) # <<>>
                   THEN <<Dataset(S_Planned, extract_vals(records, planned_keys(records)),
                                  Scalar(BarPalette[1]), Scalar(BarPalette[1]), "unset")>>
                   ELSE <<>>
        actual  == IF actual_keys(records) # <<>>
                   THEN <<Dataset(S_Actual, extract_vals(records, actual_keys(records)),
                                  Scalar(BarPalette[2]), Scalar(BarPalette[2]), "unset")>>
                   ELSE <<>>
        nf      == numeric_fields(records)
    IN  IF planned \o actual # <<>> THEN planned \o actual
        ELSE [idx \in 1..Len(nf) |->
                Dataset(nf[idx],
                        [i \in 1..Len(records) |->
                            LET v == Get(records[i], nf[idx], Num(0))
                            IN  FloatOrZero(IF IsNone(v) THEN Num(0) ELSE v)],
                        Scalar(Cycle(BarPalette, idx - 1)), Scalar(Cycle(BarPalette, idx - 1)),
                        "unset")]

(***************************************************************************)
(* Pie detection (lines 124-164)                                           *)
(***************************************************************************)
category_field(records) ==
    IF name_field(records) # NoKey THEN name_field(records)
    ELSE IF label_field(records) # NoKey THEN label_field(records)
    ELSE FirstKey(records[1].keys, LAMBDA k : IsStr(records[1].val[k]) /\ ~IsTimeLike(k))

candidate_numeric_fields(records) ==
    IF category_field(records) = NoKey THEN <<>>
    ELSE SelectSeq(records[1].keys,
                   LAMBDA k : /\ k # category_field(records)
                              /\ \/ IsNumber(records[1].val[k])
                                 \/ IsStr(records[1].val[k]) /\ LooksNumeric(records[1].val[k].val))

\* chart_t is the chart type after the bar rule
PieRuleFires(records, chart_type, chart_t) ==
    /\ chart_t = S_line
    /\ records # <<>>
    /\ category_field(records) # NoKey
    /\ Len(candidate_numeric_fields(records)) = 1
    /\ ~hint_flag(chart_type)

PieLabels(records) ==
    [i \in 1..Len(records) |-> PyStr(Get(records[i], category_field(records), Str(<<>>)))]

\* float(re.sub(r'[^0-9.\-]', '', str(raw)) or 0), 0 where it raises
PieValue(raw) ==
    LET r0 == IF IsNone(raw) THEN Num(0) ELSE raw
        digits == StripNonNumeric(PyStr(r0))
    IN  IF digits = <<>> THEN Num(0) ELSE FloatOrZero(Str(digits))

\* variant: every segment takes the first palette colour
bg_colors_AllFirst(labels) == [i \in 1..Len(labels) |-> PiePalette[1]]

bg_colors(labels) == [i \in 1..Len(labels) |-> Cycle(PiePalette, i - 1)]

PieDatasets(records) ==
    LET num_key == candidate_numeric_fields(records)[1]
        vals == [i \in 1..Len(records) |-> PieValue(Get(records[i], num_key, Num(0)))]
        colors == bg_colors(PieLabels(records))
    IN  <<Dataset(num_key, vals, Array(colors), Array(colors), "unset")>>

(***************************************************************************)
(* Time series / multi-line fallback (lines 166-192)                       *)
(***************************************************************************)
\* variant: a record without the label key gets no label at all
LineLabels_SkippingUnlabelled(records) ==
    LET lf == label_field(records)
        labelled == SelectSeq(records, LAMBDA r : lf # NoKey /\ HasKey(r, lf))
    IN  [i \in 1..Len(labelled) |-> PyStr(labelled[i].val[lf])]

LineLabels(records) ==
    LET lf == label_field(records)
    IN  [i \in 1..Len(records) |->
            IF lf # NoKey /\ HasKey(records[i], lf)
            THEN PyStr(records[i].val[lf]) ELSE <<>>]

\* numeric_fields as the line branch uses it: when profiling found none,
\* every non-label field whose column converts and is not all zero
LineNumericFields(records) ==
    IF numeric_fields(records) # <<>> THEN numeric_fields(records)
    ELSE SelectSeq(records[1].keys,
                   LAMBDA k :
                      /\ k # label_field(records)
                      /\ \A i \in 1..Len(records) :
                            Float(OrZero(Get(records[i], k, Num(0)))).kind # "raised"
                      /\ \E i \in 1..Len(records) :
                            Float(OrZero(Get(records[i], k, Num(0)))).val # 0)

LineValue(v) ==
    IF IsNone(v) THEN None
    ELSE IF Float(v).kind = "raised" THEN None ELSE Float(v)

LineDatasets(records) ==
    LET nf == LineNumericFields(records)
    IN  [idx \in 1..Len(nf) |->
            Dataset(nf[idx],
                    [i \in 1..Len(records) |-> LineValue(Get(records[i], nf[idx], None))],
                    Scalar(Cycle(LinePalette, idx - 1)), Scalar(Cycle(LinePalette, idx - 1)),
                    "False")]

(***************************************************************************)
(* The chart type and payload handed to _build_chartjs_html                *)
(***************************************************************************)
\* variant: the zero data is built before labels takes its default ["x"]
Placeholder_WithoutData(labels) ==
    <<Dataset(S_value, <<>>, Scalar("#bbb"), Scalar("#777"), "unset")>>

Placeholder(labels) ==
    <<Dataset(S_value, [i \in 1..Len(labels) |-> Num(0)], Scalar("#bbb"), Scalar("#777"), "unset")>>

\* the marker of the Chart.js template that stands for the chart type
S_CHART_TYPE == <<"_", "_", "C", "H", "A", "R", "T", "_", "T", "Y", "P", "E", "_", "_">>

\* s.replace(old, new)
RECURSIVE Replace(_, _, _)
Replace(s, old, new) ==
    IF Len(s) < Len(old) THEN s
    ELSE IF SubSeq(s, 1, Len(old)) = old
         THEN new \o Replace(SubSeq(s, Len(old) + 1, Len(s)), old, new)
         ELSE <<s[1]>> \o Replace(Tail(s), old, new)

\* the third replace of line 312 runs over the page with the payload's JSON
\* text already in it
ReplaceMarker(s, chart_type) == Replace(s, S_CHART_TYPE, chart_type)

\* the page without a payload
NoDocument == [template |-> "none", chart_type |-> <<>>, labels |-> <<>>, datasets |-> <<>>]

\* _build_chartjs_html (lines 202-364): the template used, and the chart
\* type and the payload as the page's text holds them
build_chartjs_html(labels, datasets, chart_type) ==
    IF chart_type \in {S_donut, S_doughnut, S_pie}
    THEN [template |-> "d3", chart_type |-> <<>>, labels |-> labels, datasets |-> datasets]
    ELSE [template |-> "chartjs",
          chart_type |-> chart_type,
          labels |-> [i \in 1..Len(labels) |-> ReplaceMarker(labels[i], chart_type)],
          datasets |-> [i \in 1..Len(datasets) |->
              [datasets[i] EXCEPT !.label = ReplaceMarker(datasets[i].label, chart_type)]]]

\* what the call hands to _build_chartjs_html, and the page that returns
Rendered(chart_t, labels, datasets) ==
    [raised |-> FALSE, chart_type |-> chart_t, labels |-> labels, datasets |-> datasets,
     document |-> build_chartjs_html(labels, datasets, chart_t)]

\* the call ends in an exception, nothing is handed to _build_chartjs_html
RenderRaised ==
    [raised |-> TRUE, chart_type |-> <<>>, labels |-> <<>>, datasets |-> <<>>,
     document |-> NoDocument]

\* chart type after the bar rule and after the pie rule
ChartTypeOf(records, chart_type) ==
    LET t1 == IF BarRuleFires(records, chart_type) THEN S_bar ELSE HintChartType(chart_type)
    IN  IF PieRuleFires(records, chart_type, t1) THEN S_pie ELSE t1

render_chart_html_from_dataset(data_obj, chart_type) ==
    IF NormalizeRaises(data_obj) THEN RenderRaised
    ELSE IF data_obj.shape = "payload"
    THEN Rendered(IF Truthy(chart_type) THEN PyStr(chart_type) ELSE S_line,
                  data_obj.labels, data_obj.datasets)
    ELSE
      LET records == NormalizeRecords(data_obj)
          bar == BarRuleFires(records, chart_type)
          t1  == IF bar THEN S_bar ELSE HintChartType(chart_type)
          pie == PieRuleFires(records, chart_type, t1)
          chart_t == ChartTypeOf(records, chart_type)
          line == chart_t = S_line /\ records # <<>>
          labels == IF bar THEN BarLabels(records)
                    ELSE IF pie THEN PieLabels(records)
                    ELSE IF line THEN LineLabels(records) ELSE <<>>
          datasets == IF bar THEN BarDatasets(records)
                      ELSE IF pie THEN PieDatasets(records)
                      ELSE IF line THEN LineDatasets(records) ELSE <<>>
      IN  IF datasets # <<>> THEN Rendered(chart_t, labels, datasets)
          ELSE LET shown == IF labels # <<>> THEN labels ELSE <<S_x>>
               IN  Rendered(chart_t, shown, Placeholder(shown))

(***************************************************************************)
(* Inputs of a render request                                              *)
(***************************************************************************)
MaxRecords == 2

\* the fields a record may carry, in the key order of the record
FieldOrder == <<S_month, S_project, S_segment, S_planned, S_actual, S_amount>>

\* How a record fills its cells: "a" and "b" are two ordinary rows; "blank"
\* holds None or '' or lacks the key; "swap" holds numbers where text is
\* expected and numeric text where numbers are expected; "junk" is a list
\* element that is no dict.
Variants == {"a", "b", "blank", "swap", "junk"}

\* the fields whose key a "blank" record lacks
BlankAbsent == {S_month, S_amount}

CellValue(field, variant) ==
    IF field = S_month THEN
        CASE variant = "a" -> Str(S_2024_01) [] variant = "b" -> Str(S_2024_02)
          [] OTHER -> Num(7)
    ELSE IF field \in {S_project, S_segment} THEN
        CASE variant = "a" -> Str(S_A) [] variant = "b" -> Str(S_B)
          [] variant = "blank" -> (IF field = S_project THEN Str(<<>>) ELSE None)
          [] OTHER -> Num(7)
    ELSE IF field \in {S_planned, S_hours} THEN
        CASE variant = "a" -> Num(10) [] variant = "b" -> Num(20)
          [] variant = "blank" -> None [] OTHER -> Str(S_30)
    ELSE IF field = S_actual THEN
        CASE variant = "a" -> Num(8) [] variant = "b" -> Num(15)
          [] variant = "blank" -> Str(<<>>) [] OTHER -> Str(S_1c5)
    ELSE IF field = S_amount THEN
        CASE variant = "a" -> Num(40) [] variant = "b" -> Num(60)
          [] OTHER -> Str(S_1c5)
    ELSE
        CASE variant = "a" -> Num(2) [] variant = "b" -> Num(0)
          [] variant = "blank" -> None [] OTHER -> Str(S_7)

MakeRecord(keys, variant) ==
    IF variant = "junk" THEN NotADict
    ELSE LET kept == IF variant = "blank"
                     THEN SelectSeq(keys, LAMBDA k : k \notin BlankAbsent) ELSE keys
         IN  Dict(kept, [k \in Range(kept) |-> CellValue(k, variant)])

\* the key sets of the records: every choice of fields, in FieldOrder
Schemas == {SelectSeq(FieldOrder, LAMBDA f : f \in S) : S \in SUBSET Range(FieldOrder)}

\* the key sets sent inside a {'result': [...]} wrapper
ResultSchemas == {<<S_project, S_planned, S_actual>>, <<S_segment, S_amount>>,
                  <<S_month, S_amount, S_overtime>>}

\* key sets with a numeric field whose name has a temporal token in it
OvertimeSchemas == {<<S_segment, S_overtime>>,
                    <<S_segment, S_amount, S_overtime>>,
                    <<S_month, S_amount, S_overtime>>,
                    <<S_project, S_actual, S_overtime>>}

\* key sets with fields whose names signal a running total
CumulativeSchemas == {<<S_month, S_hours, S_hours_cumulative>>,
                      <<S_segment, S_hours, S_hours_cumulative>>,
                      <<S_month, S_hours_cumulative>>,
                      <<S_month, S_hours_cumulative, S_running_total>>}

Rows == UNION {[1..n -> Variants] : n \in 0..MaxRecords}

Input(shape, items, labels, datasets) ==
    [shape |-> shape, items |-> items, labels |-> labels, datasets |-> datasets]

RecordInputs ==
    {Input("list", [i \in 1..Len(rows) |-> MakeRecord(keys, rows[i])], <<>>, <<>>) :
        keys \in Schemas \cup OvertimeSchemas \cup CumulativeSchemas, rows \in Rows}
    \cup
    {Input("result", [i \in 1..Len(rows) |-> MakeRecord(keys, rows[i])], <<>>, <<>>) :
        keys \in ResultSchemas, rows \in Rows}

Unset == [arr |-> FALSE, c |-> <<>>]

\* pre-built datasets in the style of the samples of test_d3_charts_creation.py
DatasetPool ==
    { Dataset(S_A, <<Num(40), Num(60)>>, Array(<<"#1f77b4", "#ff7f0e">>), Unset, "unset"),
      Dataset(S_B, <<Num(10), None>>, Scalar("#1f77b4"), Unset, "unset"),
      Dataset(S_value, <<Num(5)>>, Unset, Unset, "unset") }

PayloadInputs ==
    {Input("payload", <<>>, ls, ds) :
        ls \in {<<>>, <<S_A>>, <<S_A, S_B>>, <<S_CHART_TYPE, S_B>>},
        ds \in UNION {[1..n -> DatasetPool] : n \in 0..2}}

ScalarInput == Input("scalar", <<>>, <<>>, <<>>)

\* dicts that are neither a 'result' wrapper of a list nor a payload
OtherInputs ==
    {Input(shape, <<>>, <<>>, <<>>) :
        shape \in {"map", "result_falsy", "result_number", "result_text"}}
    \cup
    {Input("inner", [i \in 1..Len(rows) |-> MakeRecord(<<S_segment, S_amount>>, rows[i])],
           <<>>, <<>>) : rows \in Rows}

DataObjects == RecordInputs \cup PayloadInputs \cup {ScalarInput} \cup OtherInputs

\* the chart_type argument: absent, empty, the recognised tokens, a padded
\* capitalised synonym and an unrecognised token
Directives ==
    {None, Str(<<>>), Str(S_line), Str(S_bar), Str(S_pie), Str(S_doughnut), Str(S_donut),
     Str(S_PadDonut), Str(S_scatter)}

(***************************************************************************)
(* try_merge_plan_timeseries (pmo_client_LLM.claude.py, lines 1013-1094)   *)
(***************************************************************************)
S_Jan == <<"J", "a", "n">>

S_Feb == <<"F", "e", "b">>

S_Mar == <<"M", "a", "r">>

S_C == <<"C">>

S_2023_12 == <<"2", "0", "2", "3", "-", "1", "2">>

\* json.loads(val): shape "list" (a JSON array), "result" (an object with a
\* 'result' array), "error" (an object without 'result'), "text" (no JSON)
Parsed(shape, items) == [shape |-> shape, items |-> items]

\* an insertion-ordered dict of tool name -> tool output
EmptyDict == [keys |-> <<>>, val |-> <<>>]

\* d[k] = v
Put(d, k, v) ==
    IF k \in Range(d.keys)
    THEN [keys |-> d.keys, val |-> [x \in Range(d.keys) |-> IF x = k THEN v ELSE d.val[x]]]
    ELSE [keys |-> Append(d.keys, k),
          val |-> [x \in Range(d.keys) \cup {k} |-> IF x = k THEN v ELSE d.val[x]]]

\* the label key of a sample record (lines 1037-1045)
merge_label_key(sample) ==
    LET timed == FirstKey(sample.keys, LAMBDA k : ContainsAny(Lower(k), TimeTokens))
    IN  IF timed # NoKey THEN timed
        ELSE FirstKey(sample.keys, LAMBDA k : IsStr(sample.val[k]))

\* the numeric key of a sample record (lines 1046-1051)
merge_numeric_key(sample) ==
    FirstKey(sample.keys,
             LAMBDA k : /\ k # merge_label_key(sample)
                        /\ \/ IsNumber(sample.val[k])
                           \/ IsStr(sample.val[k]) /\ LooksNumeric(sample.val[k].val))

\* the records of one plan result, or <<>> when the result is passed over
merge_records(parsed) ==
    IF parsed.shape \in {"result", "list"} THEN parsed.items ELSE <<>>

\* one plan result contributes a series (no 'continue' is taken)
Contributes(parsed) ==
    LET records == merge_records(parsed)
    IN  /\ records # <<>>
        /\ records[1].isdict
        /\ merge_label_key(records[1]) # NoKey
        /\ merge_numeric_key(records[1]) # NoKey

\* series_labels reads r.get on every record: a record that is no dict raises
SeriesRaises(parsed) ==
    Contributes(parsed) /\ \E i \in 1..Len(parsed.items) : ~parsed.items[i].isdict

\* one entry of series_values (lines 1056-1065)
series_value(r, numeric_key) ==
    LET v0 == Get(r, numeric_key, Num(0))
        v  == IF IsNone(v0) THEN Num(0) ELSE v0
    IN  IF IsStr(v)
        THEN (IF StripNonNumeric(v.val) = <<>> THEN Num(0)
              ELSE FloatOrZero(Str(StripNonNumeric(v.val))))
        ELSE FloatOrZero(v)

Series(key, parsed) ==
    LET records == merge_records(parsed)
        label_key == merge_label_key(records[1])
        numeric_key == merge_numeric_key(records[1])
    IN  [label  |-> key \o <<":">> \o numeric_key,
         labels |-> [i \in 1..Len(records) |-> PyStr(Get(records[i], label_key, Str(<<>>)))],
         data   |-> [i \in 1..Len(records) |-> series_value(records[i], numeric_key)]]

\* all_series, in the order of the dict
all_series(plan_results_dict) ==
    LET keys == SelectSeq(plan_results_dict.keys,
                          LAMBDA k : Contributes(plan_results_dict.val[k]))
    IN  [i \in 1..Len(keys) |-> Series(keys[i], plan_results_dict.val[keys[i]])]

\* variant: only the labels that every series has
labels_union_Common(series) ==
    {l \in UNION {Range(series[i].labels) : i \in 1..Len(series)} :
        \A i \in 1..Len(series) : l \in Range(series[i].labels)}

labels_union(series) == UNION {Range(series[i].labels) : i \in 1..Len(series)}

\* variant: sorted(lbls, reverse=True)
RECURSIVE Sorted_Descending(_)
Sorted_Descending(lbls) ==
    IF lbls = {} THEN <<>>
    ELSE LET most == CHOOSE x \in lbls : \A y \in lbls \ {x} : StrLess(y, x)
         IN  <<most>> \o Sorted_Descending(lbls \ {most})

\* sorted(lbls)
RECURSIVE Sorted(_)
Sorted(lbls) ==
    IF lbls = {} THEN <<>>
    ELSE LET least == CHOOSE x \in lbls : \A y \in lbls \ {x} : StrLess(x, y)
         IN  <<least>> \o Sorted(lbls \ {least})

\* re.match(r'^\d{4}-\d{2}$', l)
IsYearMonth(l) ==
    /\ Len(l) = 7
    /\ \A i \in {1, 2, 3, 4, 6, 7} : IsDigit(l[i])
    /\ l[5] = "-"

\* variant: the axis in descending order
sort_labels_Descending(lbls) ==
    LET up == Sorted(lbls) IN [i \in 1..Len(up) |-> up[Len(up) + 1 - i]]

sort_labels(lbls) ==
    IF \A l \in lbls : IsYearMonth(l) THEN Sorted(lbls) ELSE Sorted(lbls)

\* {l: v for l, v in zip(labels, data)}.get(L, 0) or 0
Aligned(s, L) ==
    LET at == {i \in 1..Len(s.labels) : s.labels[i] = L}
        last == CHOOSE i \in at : \A j \in at : j <= i
    IN  IF at = {} THEN Num(0) ELSE OrZero(s.data[last])

MergePalette == <<"#1f77b4", "#ff7f0e", "#2ca02c", "#d62728", "#9467bd", "#8c564b">>

NoPayload == [made |-> FALSE, labels |-> <<>>, datasets |-> <<>>]

\* variant: without a series, an empty payload is returned instead of None
try_merge_plan_timeseries_EmptyPayload(plan_results_dict) ==
    LET series == all_series(plan_results_dict)
        unified_labels == sort_labels(labels_union(series))
    IN  [made |-> TRUE,
         labels |-> unified_labels,
         datasets |-> [idx \in 1..Len(series) |->
             Dataset(series[idx].label,
                     [p \in 1..Len(unified_labels) |-> Aligned(series[idx], unified_labels[p])],
                     Scalar(Cycle(MergePalette, idx - 1)), Scalar(Cycle(MergePalette, idx - 1)),
                     "False")]]

try_merge_plan_timeseries(plan_results_dict) ==
    LET series == all_series(plan_results_dict)
        unified_labels == sort_labels(labels_union(series))
    IN  IF series = <<>> THEN NoPayload
        ELSE [made |-> TRUE,
              labels |-> unified_labels,
              datasets |-> [idx \in 1..Len(series) |->
                  Dataset(series[idx].label,
                          [p \in 1..Len(unified_labels) |-> Aligned(series[idx], unified_labels[p])],
                          Scalar(Cycle(MergePalette, idx - 1)), Scalar(Cycle(MergePalette, idx - 1)),
                          "False")]]

\* merged_payload as run() holds it (lines 1096-1100): None when the merge
\* raises or returns None
MergedPayload(plan_results_dict) ==
    IF \E k \in Range(plan_results_dict.keys) : SeriesRaises(plan_results_dict.val[k])
    THEN NoPayload
    ELSE try_merge_plan_timeseries(plan_results_dict)

(***************************************************************************)
(* The outputs the tools of a plan may return                              *)
(***************************************************************************)
MaxSteps == 2

ToolNames == {S_A, S_B, S_C}

\* the rows each tool can report; a fetch returns any of them, in this order
ToolRows(tool) ==
    IF tool = S_A THEN
        << Dict(<<S_month, S_hours>>, (S_month :> Str(S_Jan)) @@ (S_hours :> Num(10))),
           Dict(<<S_month, S_hours>>, (S_month :> Str(S_Feb)) @@ (S_hours :> Num(20))),
           Dict(<<S_month, S_hours>>, (S_month :> Str(S_Mar)) @@ (S_hours :> Num(30))),
           Dict(<<S_month, S_hours>>, (S_month :> Str(S_Jan)) @@ (S_hours :> Num(7))) >>
    ELSE IF tool = S_B THEN
        << Dict(<<S_amount, S_segment>>, (S_amount :> Num(5)) @@ (S_segment :> Str(S_Feb))),
           Dict(<<S_amount, S_segment>>, (S_amount :> Num(15)) @@ (S_segment :> Str(S_Mar))),
           Dict(<<S_amount, S_segment>>, (S_amount :> None) @@ (S_segment :> Str(S_Jan))),
           Dict(<<S_amount, S_segment>>, (S_amount :> Str(S_1c5)) @@ (S_segment :> Str(S_Feb))) >>
    ELSE
        << Dict(<<S_month, S_hours>>, (S_month :> Str(S_2024_02)) @@ (S_hours :> None)),
           Dict(<<S_month, S_hours>>, (S_month :> Str(S_2024_01)) @@ (S_hours :> Num(0))),
           Dict(<<S_month>>, (S_month :> Str(S_2024_01))),
           Dict(<<S_month, S_hours>>, (S_month :> Str(S_2023_12)) @@ (S_hours :> Num(5))) >>

\* the rows of seq at the positions in picks, in order
Pick(seq, picks) ==
    LET F[i \in 0..Len(seq)] ==
            IF i = 0 THEN <<>>
            ELSE IF i \in picks THEN Append(F[i - 1], seq[i]) ELSE F[i - 1]
    IN  F[Len(seq)]

ToolOutputs(tool) ==
    {Parsed("list", Pick(ToolRows(tool), picks)) : picks \in SUBSET (1..Len(ToolRows(tool)))}
    \cup {Parsed("error", <<>>)}
    \cup (IF tool = S_A
          THEN {Parsed("text", <<>>),
                Parsed("result", Pick(ToolRows(tool), {1, 2})),
                Parsed("list", <<ToolRows(tool)[2], NotADict>>)}
          ELSE {})

Plans == UNION {[1..n -> ToolNames] : n \in 1..MaxSteps}

(***************************************************************************)
(* _repair_claude_html (pmo_client_LLM.claude.20Oct2025..py, lines 167-309) *)
(*                                                                         *)
(* The saved text is described by what the searches of the repair step     *)
(* find in it:                                                             *)
(*   chart_init  the text holds a chart-data script or a Chart( call       *)
(*   assigned    the first `const|var|let data = [ ... ];`                 *)
(*   bare        the first `[ { ... } ]` of the text                       *)
(*   cards       the stat-card label / value pairs, in document order      *)
(*   canvas_id   the id of the first canvas, NoKey when there is none      *)
(*   title       the text of the <title> element, NoKey when there is none *)
(***************************************************************************)
S_Value == <<"V", "a", "l", "u", "e">>

S_hoursChart == <<"h", "o", "u", "r", "s", "C", "h", "a", "r", "t">>

S_RepairedChart ==
    <<"R", "e", "p", "a", "i", "r", "e", "d", " ", "C", "h", "a", "r", "t">>

S_c1 == <<"c", "1">>

S_PadT == <<" ", "T", " ">>

S_BoldA == <<" ", "<", "b", ">", "A", "<", "/", "b", ">">>

S_Tag == <<"<", "i", ">">>

S_10h == <<"1", "0", " ", "h">>

S_na == <<"n", "/", "a">>

S_1m2 == <<"1", "-", "2">>

\* an array literal: text is "json" (json.loads parses it), "trailing_comma"
\* (it parses once the trailing commas are removed) or "broken"; items are
\* the elements of the parsed list
ArrayText(text, items) == [found |-> TRUE, text |-> text, items |-> items]

NoArray == [found |-> FALSE, text |-> "none", items |-> <<>>]

Fragment(chart_init, assigned, bare, cards, canvas_id, title) ==
    [chart_init |-> chart_init, assigned |-> assigned, bare |-> bare, cards |-> cards,
     canvas_id |-> canvas_id, title |-> title]

\* the index of the first '>' of s, 0 when there is none
RECURSIVE FirstClose(_, _)
FirstClose(s, i) ==
    IF i > Len(s) THEN 0 ELSE IF s[i] = ">" THEN i ELSE FirstClose(s, i + 1)

\* re.sub(r"<[^>]+>", "", label)
RECURSIVE StripTags(_)
StripTags(s) ==
    IF s = <<>> THEN <<>>
    ELSE IF Head(s) = "<" /\ FirstClose(s, 2) >= 3
         THEN StripTags(SubSeq(s, FirstClose(s, 2) + 1, Len(s)))
         ELSE <<Head(s)>> \o StripTags(Tail(s))

\* lines 189-195: one (label, value) pair of a stat card
StatPair(card) ==
    LET lbl  == Strip(StripTags(card.label))
        vstr == StripNonNumeric(card.val)
    IN  [label |-> IF lbl # <<>> THEN lbl ELSE S_Value,
         v     |-> IF vstr = <<>> THEN Num(0) ELSE FloatOrZero(Str(vstr))]

\* the file as the repair step leaves it: written is FALSE when write_text
\* was never reached and the file still holds the text that was read.  A
\* written page always differs from the text read, since the page calls
\* Chart( and a text with such a call is never repaired.
Unwritten ==
    [written |-> FALSE, title |-> <<>>, canvas_id |-> <<>>, labels |-> <<>>,
     datasets |-> <<>>]

RepairedPage(title, canvas_id, labels, datasets) ==
    [written |-> TRUE, title |-> title, canvas_id |-> canvas_id, labels |-> labels,
     datasets |-> datasets]

\* lines 176-177
canvas_id_detected(txt) == IF txt.canvas_id = NoKey THEN S_hoursChart ELSE txt.canvas_id

\* lines 212-216
safe_title(txt) == IF txt.title = NoKey THEN S_RepairedChart ELSE Strip(txt.title)

\* lines 186-250: the page built from the stat cards
StatCardPage(txt) ==
    LET stats == [i \in 1..Len(txt.cards) |-> StatPair(txt.cards[i])]
    IN  RepairedPage(safe_title(txt), canvas_id_detected(txt),
                     [i \in 1..Len(stats) |-> stats[i].label],
                     << Dataset(S_Value, [i \in 1..Len(stats) |-> stats[i].v],
                                Scalar("#1f77b4"), Scalar("#1f77b4"), "unset") >>)

\* lines 256-306: json_text is parsed (an exception of the second json.loads
\* or of sample.keys() leaves for the handler of line 308, which writes
\* nothing); labels and datasets are created empty and nothing is put in them
ArrayPage(txt, json_text) ==
    IF json_text.text = "broken" THEN Unwritten
    ELSE IF json_text.items # <<>> /\ ~json_text.items[1].isdict THEN Unwritten
    ELSE RepairedPage(S_RepairedChart, canvas_id_detected(txt), <<>>, <<>>)

\* the file after _repair_claude_html(file_path), txt being its text before
repair_claude_html(txt) ==
    IF txt.chart_init THEN Unwritten
    ELSE IF txt.assigned.found THEN ArrayPage(txt, txt.assigned)
    ELSE IF txt.bare.found THEN ArrayPage(txt, txt.bare)
    ELSE IF txt.cards # <<>> THEN StatCardPage(txt)
    ELSE Unwritten

(***************************************************************************)
(* The saved documents the repair step may meet                            *)
(***************************************************************************)
\* the elements of a literal array: two records and an element that is no
\* object
RepairVariants == {"a", "b", "junk"}

RepairItems ==
    UNION {{[i \in 1..n |-> MakeRecord(<<S_month, S_hours>>, rows[i])] :
               rows \in [1..n -> RepairVariants]} : n \in 0..MaxRecords}

AssignedArrays ==
    {ArrayText(text, items) : text \in {"json", "trailing_comma"}, items \in RepairItems}
    \cup {ArrayText("broken", <<>>), NoArray}

\* `[ { ... } ]` opens and closes with an object
BareArrays ==
    {ArrayText("json", items) :
        items \in {r \in RepairItems : r # <<>> /\ r[1].isdict /\ r[Len(r)].isdict}}
    \cup {ArrayText("broken", <<>>), NoArray}

StatCard(label, val) == [label |-> label, val |-> val]

CardLists ==
    { <<>>,
      <<StatCard(S_A, S_10h)>>,
      <<StatCard(S_BoldA, S_na), StatCard(S_Tag, S_1m2)>>,
      <<StatCard(S_B, S_30), StatCard(<<>>, <<>>)>> }

Documents ==
    {Fragment(chart_init, assigned, bare, cards, canvas_id, title) :
        chart_init \in BOOLEAN, assigned \in AssignedArrays, bare \in BareArrays,
        cards \in CardLists, canvas_id \in {NoKey, S_c1}, title \in {NoKey, S_PadT}}

NoDocumentSaved == Fragment(TRUE, NoArray, NoArray, <<>>, NoKey, NoKey)

(***************************************************************************)
(* The page of _build_chartjs_html as a browser loads it                   *)
(* (chart_renderer.py, lines 202-364)                                      *)
(***************************************************************************)
S_CHART_PAYLOAD ==
    <<"_", "_", "C", "H", "A", "R", "T", "_", "P", "A", "Y", "L", "O", "A", "D", "_", "_">>

S_Quarterly == <<"Q", "1">>

S_ChartInitError ==
    <<"C", "h", "a", "r", "t", " ", "i", "n", "i", "t", " ", "e", "r", "r", "o", "r", ":", " ">>

S_not_defined == <<"n", "o", "t", " ", "d", "e", "f", "i", "n", "e", "d">>

S_bad_type == <<"b", "a", "d", " ", "t", "y", "p", "e">>

\* the text json.dumps(chart_payload) puts where a payload marker stood, as
\* one character
PayloadJson == <<"{payload}">>

\* the <title> and <h2> text of the page: `.replace('__TITLE__', title)`,
\* then the payload replace and, in the Chart.js template only, the chart
\* type replace run over the inserted title as well
page_title(title_text, chart_type) ==
    LET with_payload == Replace(title_text, S_CHART_PAYLOAD, PayloadJson)
    IN  IF chart_type \in {S_donut, S_doughnut, S_pie} THEN with_payload
        ELSE ReplaceMarker(with_payload, chart_type)

\* the page before its script has run
NotLoaded ==
    [loaded |-> FALSE, library_failed |-> FALSE, drawn |-> FALSE, banner |-> FALSE,
     banner_text |-> <<>>, legend |-> 0]

\* the script of the Chart.js template (lines 237-310): a throwing
\* `new Chart(...)` is caught at line 268 and a banner with the message is
\* put first in the body; the legend gets one item per dataset
LoadChartJs(document, error) ==
    [loaded |-> TRUE, library_failed |-> error # <<>>, drawn |-> error = <<>>,
     banner |-> error # <<>>,
     banner_text |-> IF error # <<>> THEN S_ChartInitError \o error ELSE <<>>,
     legend |-> Len(document.datasets)]

\* the script of the D3 template (lines 334-357): everything runs in one
\* try whose catch writes to the console only; the legend gets one item per
\* label when the script reaches it
LoadD3(document, error) ==
    [loaded |-> TRUE, library_failed |-> error # <<>>, drawn |-> error = <<>>,
     banner |-> FALSE, banner_text |-> <<>>,
     legend |-> IF error = <<>> THEN Len(document.labels) ELSE 0]

\* the page after load; error is the message of the exception the chart
\* library throws on initialisation, <<>> when it throws none
LoadDocument(document, error) ==
    IF document.template = "d3" THEN LoadD3(document, error)
    ELSE LoadChartJs(document, error)

\* the titles asked for: a plain one and the markers of the template
Titles == {S_Quarterly, S_CHART_PAYLOAD, S_CHART_TYPE}

\* the messages of a failing chart library; <<>> stands for a library that
\* initialises
LibraryErrors == {<<>>, S_not_defined, S_bad_type}

(***************************************************************************)
(* The tooltip overlay of run_chart                                        *)
(* (pmo_charts_client_LLM.openai.py, overlay_js, lines 405-557)            *)
(***************************************************************************)
MaxLabels == 3

MaxTime == 4

\* innerWidth = Math.max(10, svgWidth - margin.left - margin.right)
InnerWidth == 10

Abs(x) == IF x < 0 THEN 0 - x ELSE x

Min(a, b) == IF a < b THEN a ELSE b

Max(a, b) == IF a > b THEN a ELSE b

\* d3.bisector(d => d).left(times, t, lo, hi): binary search, indices from 0
RECURSIVE BisectLeft(_, _, _, _)
BisectLeft(times, t, lo, hi) ==
    IF lo >= hi THEN lo
    ELSE LET mid == (lo + hi) \div 2
         IN  IF times[mid + 1] < t THEN BisectLeft(times, t, mid + 1, hi)
             ELSE BisectLeft(times, t, lo, mid)

\* variant: on a tie the later of the two neighbours
NearestTimeIndex_LaterOnTie(times, t) ==
    LET idx == BisectLeft(times, t, 0, Len(times))
        near == IF idx > 0 /\ idx < Len(times)
                THEN (IF Abs(times[idx] - t) < Abs(times[idx + 1] - t) THEN idx - 1 ELSE idx)
                ELSE idx
    IN  IF near >= Len(times) THEN Len(times) - 1 ELSE near

\* lines 519-531: the index (from 0) handed to showForIndex on a time axis
NearestTimeIndex(times, t) ==
    LET idx == BisectLeft(times, t, 0, Len(times))
        near == IF idx > 0 /\ idx < Len(times)
                THEN (IF Abs(times[idx] - t) <= Abs(times[idx + 1] - t) THEN idx - 1 ELSE idx)
                ELSE idx
    IN  IF near >= Len(times) THEN Len(times) - 1 ELSE near

\* lines 535-541: the index on a band axis of n labels; step is
\* innerWidth / n, so relX / step is relX * n / innerWidth
BandIndex(n, relX) == Max(0, Min(n - 1, (relX * n) \div InnerWidth))

\* showForIndex (lines 490-491) shows row i, or leaves the tooltip as it is
\* when i is no row
showForIndex(i, n, shown) == IF i < 0 \/ i >= n THEN shown ELSE i

\* the overlay of a chart: a time axis with the times of its labels, or a
\* band axis of n labels that are no dates; shown is the row in the tooltip,
\* -1 while the tooltip is hidden
Overlay(isTime, times, n) ==
    [isTime |-> isTime, times |-> times, n |-> n, pointer |-> 0, shown |-> 0 - 1]

TimeAxes == UNION {[1..n -> 0..MaxTime] : n \in 1..MaxLabels}

Overlays ==
    {Overlay(TRUE, times, Len(times)) : times \in TimeAxes}
    \cup {Overlay(FALSE, <<>>, n) : n \in 1..MaxLabels}

\* the pointer: its time under xScale.invert on a time axis, its offset
\* mx - margin.left on a band axis
Pointers(o) == IF o.isTime THEN (0 - 1)..(MaxTime + 1) ELSE (0 - 2)..(InnerWidth + 2)

NoOverlay == Overlay(FALSE, <<>>, 0)

(***************************************************************************)
(* The chat memory of run (pmo_client_LLM.claude.py, lines 36-102)         *)
(***************************************************************************)
\* MEMORY_MAX_MESSAGES = 200 (line 38)
MEMORY_MAX_MESSAGES == 200

\* max_iterations = 3 (line 862)
max_iterations == 3

\* the number of new messages after which no further turn is started
MaxMessages == 4

\* messages[-MEMORY_MAX_MESSAGES:]
LastMessages(messages) ==
    IF Len(messages) <= MEMORY_MAX_MESSAGES THEN messages
    ELSE SubSeq(messages, Len(messages) - MEMORY_MAX_MESSAGES + 1, Len(messages))

\* The memory of one chat id.  A message is its number in the conversation:
\* said counts the messages appended so far, and the next one is said + 1.
\* disk is the list in the chat's JSON file (exists: the file is there),
\* chat_memories the entry chat_memories[chat_id], conversation_messages the
\* list of run; aliased holds while the entry and the list of run are one
\* list object, so that an append to the list shows in the entry; prior is
\* the number of messages an earlier process left in the file.
NoSession ==
    [exists |-> FALSE, disk |-> <<>>, chat_memories |-> <<>>,
     conversation_messages |-> <<>>, aliased |-> FALSE, said |-> 0, iteration |-> 0,
     prior |-> 0]

\* a chat id with no file yet, or with the file save_chat_memory wrote in an
\* earlier process
Session(prior) ==
    IF prior = 0 THEN NoSession
    ELSE [NoSession EXCEPT !.exists = TRUE, !.disk = [i \in 1..prior |-> i],
                           !.said = prior, !.prior = prior]

\* no file, a file two messages short of the limit, a file at the limit
Sessions == {Session(prior) : prior \in {0, MEMORY_MAX_MESSAGES - 2, MEMORY_MAX_MESSAGES}}

\* load_chat_memory (lines 57-72): the file's list, cut to its last
\* messages, replaces the entry; without a file the entry stays
load_chat_memory(m) ==
    IF m.exists
    THEN [m EXCEPT !.chat_memories = LastMessages(m.disk), !.aliased = FALSE]
    ELSE m

\* save_chat_memory (lines 75-93)
save_chat_memory(m, messages) ==
    [m EXCEPT !.exists = TRUE, !.disk = LastMessages(messages)]

\* set_chat_memory (lines 96-102): the slice is a new list
set_chat_memory(m, messages) ==
    LET kept == LastMessages(messages)
    IN  save_chat_memory([m EXCEPT !.chat_memories = kept, !.aliased = FALSE], kept)

\* conversation_messages.append({...})
append_message(m) ==
    LET conv == Append(m.conversation_messages, m.said + 1)
    IN  [m EXCEPT !.said = @ + 1,
                  !.conversation_messages = conv,
                  !.chat_memories = IF m.aliased THEN conv ELSE @]

\* if len(conversation_messages) > MEMORY_MAX_MESSAGES:
\*     conversation_messages = conversation_messages[-MEMORY_MAX_MESSAGES:]
trim_messages(m) ==
    IF Len(m.conversation_messages) > MEMORY_MAX_MESSAGES
    THEN [m EXCEPT !.conversation_messages = LastMessages(@), !.aliased = FALSE]
    ELSE m

\* chat_memories[chat_id] = conversation_messages (lines 918, 992)
keep_in_process(m) ==
    [m EXCEPT !.chat_memories = m.conversation_messages, !.aliased = TRUE]

\* lines 285-292: the loaded list is copied, the user's message appended
\* and the list persisted
begin_turn(m) ==
    LET loaded == load_chat_memory(m)
        copied == [loaded EXCEPT !.conversation_messages = loaded.chat_memories,
                                 !.aliased = FALSE, !.iteration = 0]
        asked  == append_message(copied)
    IN  set_chat_memory(asked, asked.conversation_messages)

\* lines 655-658, 1186-1190: a tool's output is appended, the list trimmed
\* and persisted
tool_output_persisted(m) ==
    LET out == trim_messages(append_message(m))
    IN  set_chat_memory(out, out.conversation_messages)

\* lines 1003-1004, 1128, 1201-1202, 1212-1213: a pointer to a saved payload
\* or page is appended and the list persisted
pointer_persisted(m) ==
    LET out == append_message(m)
    IN  set_chat_memory(out, out.conversation_messages)

\* lines 890-918: one more request; the assistant's reply is appended, the
\* list trimmed and kept in the process
assistant_reply(m) ==
    keep_in_process(trim_messages(append_message([m EXCEPT !.iteration = @ + 1])))

\* lines 985-1006: the output of one plan step; large is TRUE when the output
\* is longer than 4000 characters
plan_step(m, large) ==
    LET out == keep_in_process(trim_messages(append_message(m)))
    IN  IF large THEN pointer_persisted(out) ELSE out

RECURSIVE run_plan(_, _)
\* for idx, step in enumerate(steps) (line 941)
run_plan(m, steps) ==
    IF steps = <<>> THEN m ELSE run_plan(plan_step(m, Head(steps)), Tail(steps))

\* the steps of a plan whose tool call succeeded, each with the size of its
\* output
StepOutputs == UNION {[1..n -> BOOLEAN] : n \in 1..MaxSteps}

(***************************************************************************)
(* State                                                                   *)
(***************************************************************************)
VARIABLES pc, data_obj, chart_type, rendered, plan, plan_results, merged_payload,
          settled, forwarded, last_tool_output, html_text, file_text,
          title_text, html_title, page, overlay, memory

vars == <<pc, data_obj, chart_type, rendered, plan, plan_results, merged_payload,
          settled, forwarded, last_tool_output, html_text, file_text,
          title_text, html_title, page, overlay, memory>>

render_vars == <<data_obj, chart_type, rendered>>

merge_vars == <<plan, plan_results, merged_payload, settled, forwarded, last_tool_output>>

repair_vars == <<html_text, file_text>>

page_vars == <<title_text, html_title, page>>

\* nothing has been forwarded to the chart renderer
NotForwarded == [sent |-> FALSE, data |-> NoPayload, chart_type |-> <<>>]

NotRendered ==
    [raised |-> FALSE, chart_type |-> <<>>, labels |-> <<>>, datasets |-> <<>>,
     document |-> NoDocument]

(***************************************************************************)
(* A render request                                                        *)
(***************************************************************************)
InitRender ==
    /\ pc = "call"
    /\ data_obj \in DataObjects
    /\ chart_type \in Directives
    /\ rendered = NotRendered
    /\ plan = <<>>
    /\ plan_results = EmptyDict
    /\ merged_payload = NoPayload
    /\ settled = <<>>
    /\ forwarded = NotForwarded
    /\ last_tool_output = "none"
    /\ html_text = NoDocumentSaved
    /\ file_text = Unwritten
    /\ title_text = <<>>
    /\ html_title = <<>>
    /\ page = NotLoaded
    /\ overlay = NoOverlay
    /\ memory = NoSession

\* one call of render_chart_html_from_dataset
RenderChart ==
    /\ pc = "call"
    /\ rendered' = render_chart_html_from_dataset(data_obj, chart_type)
    /\ pc' = "rendered"
    /\ UNCHANGED <<data_obj, chart_type>>
    /\ UNCHANGED merge_vars
    /\ UNCHANGED repair_vars
    /\ UNCHANGED page_vars
    /\ UNCHANGED overlay
    /\ UNCHANGED memory

NextRender == RenderChart

SpecRender == InitRender /\ [][NextRender]_vars

(***************************************************************************)
(* A multi-step plan of run(): the steps run in order, each storing its    *)
(* tool's output under the tool's name, then the results are merged        *)
(***************************************************************************)
InitMerge ==
    /\ pc = "plan"
    /\ plan \in Plans
    /\ plan_results = EmptyDict
    /\ merged_payload = NoPayload
    /\ settled = <<>>
    /\ forwarded = NotForwarded
    /\ last_tool_output = "none"
    /\ html_text = NoDocumentSaved
    /\ file_text = Unwritten
    /\ title_text = <<>>
    /\ html_title = <<>>
    /\ page = NotLoaded
    /\ overlay = NoOverlay
    /\ memory = NoSession
    /\ data_obj = ScalarInput
    /\ chart_type = None
    /\ rendered = NotRendered

\* one iteration of `for idx, step in enumerate(steps)` (lines 942-1009);
\* plan holds the steps still to run. A tool call that fails leaves the
\* content {"error": ...} (lines 949-951), stored like any other under the
\* tool's name. settled notes, step by step, the tool and whether its
\* output was one the merge builds a series from.
ExecuteStep ==
    /\ pc = "plan"
    /\ plan # <<>>
    /\ \E content \in ToolOutputs(Head(plan)) :
          /\ plan_results' = Put(plan_results, Head(plan), content)
          /\ settled' = Append(settled, [tool |-> Head(plan),
                                         failed |-> content.shape = "error",
                                         series |-> Contributes(content)
                                                      /\ ~SeriesRaises(content)])
    /\ plan' = Tail(plan)
    /\ UNCHANGED <<pc, merged_payload, forwarded, last_tool_output>>
    /\ UNCHANGED render_vars
    /\ UNCHANGED repair_vars
    /\ UNCHANGED page_vars
    /\ UNCHANGED overlay
    /\ UNCHANGED memory

\* lines 1096-1100, after the last step
MergePlan ==
    /\ pc = "plan"
    /\ plan = <<>>
    /\ merged_payload' = MergedPayload(plan_results)
    /\ pc' = "merged"
    /\ UNCHANGED <<plan, plan_results, settled, forwarded, last_tool_output>>
    /\ UNCHANGED render_vars
    /\ UNCHANGED repair_vars
    /\ UNCHANGED page_vars
    /\ UNCHANGED overlay
    /\ UNCHANGED memory

\* lines 1102-1137: a merged payload is forwarded to the chart renderer as a
\* line chart, which saves a page or does not; without a merged payload the
\* plan results go back to the conversation
ForwardMerged ==
    /\ pc = "merged"
    /\ IF merged_payload.made
       THEN /\ forwarded' = [sent |-> TRUE, data |-> merged_payload, chart_type |-> S_line]
            /\ last_tool_output' \in {"html_saved", "plan_results"}
       ELSE /\ forwarded' = forwarded
            /\ last_tool_output' = "plan_results"
    /\ pc' = "done"
    /\ UNCHANGED <<plan, plan_results, merged_payload, settled>>
    /\ UNCHANGED render_vars
    /\ UNCHANGED repair_vars
    /\ UNCHANGED page_vars
    /\ UNCHANGED overlay
    /\ UNCHANGED memory

NextMerge == ExecuteStep \/ MergePlan \/ ForwardMerged

SpecMerge == InitMerge /\ [][NextMerge]_vars

(***************************************************************************)
(* A saved document handed to the repair step (line 312)                   *)
(***************************************************************************)
InitRepair ==
    /\ pc = "saved"
    /\ html_text \in Documents
    /\ file_text = Unwritten
    /\ data_obj = ScalarInput
    /\ chart_type = None
    /\ rendered = NotRendered
    /\ plan = <<>>
    /\ plan_results = EmptyDict
    /\ merged_payload = NoPayload
    /\ settled = <<>>
    /\ forwarded = NotForwarded
    /\ last_tool_output = "none"
    /\ title_text = <<>>
    /\ html_title = <<>>
    /\ page = NotLoaded
    /\ overlay = NoOverlay
    /\ memory = NoSession

\* one call of _repair_claude_html(filepath)
RepairHtml ==
    /\ pc = "saved"
    /\ file_text' = repair_claude_html(html_text)
    /\ pc' = "repaired"
    /\ UNCHANGED html_text
    /\ UNCHANGED render_vars
    /\ UNCHANGED merge_vars
    /\ UNCHANGED page_vars
    /\ UNCHANGED overlay
    /\ UNCHANGED memory

NextRepair == RepairHtml

SpecRepair == InitRepair /\ [][NextRepair]_vars

(***************************************************************************)
(* A payload rendered under a title, and the page loaded in a browser      *)
(***************************************************************************)
InitPage ==
    /\ pc = "build"
    /\ data_obj \in PayloadInputs
    /\ chart_type \in Directives
    /\ title_text \in Titles
    /\ rendered = NotRendered
    /\ html_title = <<>>
    /\ page = NotLoaded
    /\ overlay = NoOverlay
    /\ memory = NoSession
    /\ plan = <<>>
    /\ plan_results = EmptyDict
    /\ merged_payload = NoPayload
    /\ settled = <<>>
    /\ forwarded = NotForwarded
    /\ last_tool_output = "none"
    /\ html_text = NoDocumentSaved
    /\ file_text = Unwritten

\* render_chart_html_from_dataset(data_obj, title_text, chart_type)
BuildPage ==
    /\ pc = "build"
    /\ rendered' = render_chart_html_from_dataset(data_obj, chart_type)
    /\ html_title' = page_title(title_text, rendered'.chart_type)
    /\ pc' = "built"
    /\ UNCHANGED <<data_obj, chart_type, title_text, page>>
    /\ UNCHANGED merge_vars
    /\ UNCHANGED repair_vars
    /\ UNCHANGED overlay
    /\ UNCHANGED memory

\* the browser runs the script of the page; the chart library initialises
\* or throws
LoadPage ==
    /\ pc = "built"
    /\ \E error \in LibraryErrors : page' = LoadDocument(rendered.document, error)
    /\ pc' = "loaded"
    /\ UNCHANGED <<data_obj, chart_type, rendered, title_text, html_title>>
    /\ UNCHANGED merge_vars
    /\ UNCHANGED repair_vars
    /\ UNCHANGED overlay
    /\ UNCHANGED memory

NextPage == BuildPage \/ LoadPage

SpecPage == InitPage /\ [][NextPage]_vars

(***************************************************************************)
(* The pointer over the overlay of a chart                                 *)
(***************************************************************************)
InitOverlay ==
    /\ pc = "overlay"
    /\ overlay \in Overlays
    /\ data_obj = ScalarInput
    /\ chart_type = None
    /\ rendered = NotRendered
    /\ plan = <<>>
    /\ plan_results = EmptyDict
    /\ merged_payload = NoPayload
    /\ settled = <<>>
    /\ forwarded = NotForwarded
    /\ last_tool_output = "none"
    /\ html_text = NoDocumentSaved
    /\ file_text = Unwritten
    /\ title_text = <<>>
    /\ html_title = <<>>
    /\ page = NotLoaded
    /\ memory = NoSession

\* overlay.on('mousemove', ...)
MouseMove ==
    /\ pc \in {"overlay", "moved"}
    /\ \E at \in Pointers(overlay) :
           LET idx == IF overlay.isTime THEN NearestTimeIndex(overlay.times, at)
                      ELSE BandIndex(overlay.n, at)
           IN  overlay' = [overlay EXCEPT !.pointer = at,
                                          !.shown = showForIndex(idx, overlay.n, overlay.shown)]
    /\ pc' = "moved"
    /\ UNCHANGED render_vars
    /\ UNCHANGED merge_vars
    /\ UNCHANGED repair_vars
    /\ UNCHANGED page_vars
    /\ UNCHANGED memory

\* .on('mouseout', hide).on('mouseleave', hide)
MouseOut ==
    /\ pc = "moved"
    /\ overlay' = [overlay EXCEPT !.shown = 0 - 1]
    /\ pc' = "overlay"
    /\ UNCHANGED render_vars
    /\ UNCHANGED merge_vars
    /\ UNCHANGED repair_vars
    /\ UNCHANGED page_vars
    /\ UNCHANGED memory

NextOverlay == MouseMove \/ MouseOut

SpecOverlay == InitOverlay /\ [][NextOverlay]_vars

(***************************************************************************)
(* The chat memory over the turns of one chat id                           *)
(***************************************************************************)
InitMemory ==
    /\ pc = "closed"
    /\ memory \in Sessions
    /\ overlay = NoOverlay
    /\ data_obj = ScalarInput
    /\ chart_type = None
    /\ rendered = NotRendered
    /\ plan = <<>>
    /\ plan_results = EmptyDict
    /\ merged_payload = NoPayload
    /\ settled = <<>>
    /\ forwarded = NotForwarded
    /\ last_tool_output = "none"
    /\ html_text = NoDocumentSaved
    /\ file_text = Unwritten
    /\ title_text = <<>>
    /\ html_title = <<>>
    /\ page = NotLoaded

\* a new process: chat_memories = {} (line 37), then load_chat_memory at the
\* start of the prompt loop (line 1326)
OpenSession ==
    /\ pc = "closed"
    /\ memory' = load_chat_memory([memory EXCEPT !.chat_memories = <<>>,
                                                 !.conversation_messages = <<>>,
                                                 !.aliased = FALSE])
    /\ pc' = "prompt"
    /\ UNCHANGED <<render_vars, merge_vars, repair_vars, page_vars, overlay>>

\* :exit, or an interrupt at the prompt (lines 1337, 1354, 1407)
QuitSession ==
    /\ pc = "prompt"
    /\ memory' = set_chat_memory(memory, memory.chat_memories)
    /\ pc' = "closed"
    /\ UNCHANGED <<render_vars, merge_vars, repair_vars, page_vars, overlay>>

\* run up to its request loop (lines 285-292), with the chart shortcut that
\* fetches a tool's output first (lines 655-658) and may return a saved page
\* (lines 712-714, 847-849)
StartTurn ==
    /\ pc = "prompt"
    /\ memory.said - memory.prior < MaxMessages
    /\ \E shortcut \in {"none", "fetched", "page"} :
           LET asked   == begin_turn(memory)
               fetched == tool_output_persisted(asked)
           IN  /\ memory' = CASE shortcut = "none"    -> asked
                              [] shortcut = "fetched" -> fetched
                              [] shortcut = "page"    -> pointer_persisted(fetched)
               /\ pc' = IF shortcut = "page" THEN "prompt" ELSE "loop"
    /\ UNCHANGED <<render_vars, merge_vars, repair_vars, page_vars, overlay>>

\* the request fails (lines 896-904): run returns the error text
ApiError ==
    /\ pc = "loop"
    /\ memory.iteration < max_iterations
    /\ memory' = [memory EXCEPT !.iteration = @ + 1]
    /\ pc' = "prompt"
    /\ UNCHANGED <<render_vars, merge_vars, repair_vars, page_vars, overlay>>

\* the reply is a plan (lines 938-1139): its steps run, and a merged chart
\* may be saved (lines 1127-1128)
PlanIteration ==
    /\ pc = "loop"
    /\ memory.iteration < max_iterations
    /\ \E steps \in StepOutputs, saved \in BOOLEAN :
           LET done == run_plan(assistant_reply(memory), steps)
           IN  memory' = IF saved THEN pointer_persisted(done) ELSE done
    /\ pc' = "loop"
    /\ UNCHANGED <<render_vars, merge_vars, repair_vars, page_vars, overlay>>

\* the reply asks for one tool (lines 1142-1206)
ToolIteration ==
    /\ pc = "loop"
    /\ memory.iteration < max_iterations
    /\ \E large \in BOOLEAN :
           LET out == tool_output_persisted(assistant_reply(memory))
           IN  memory' = IF large THEN pointer_persisted(out) ELSE out
    /\ pc' = "loop"
    /\ UNCHANGED <<render_vars, merge_vars, repair_vars, page_vars, overlay>>

\* the reply is the final answer (lines 1208-1236)
FinalAnswer ==
    /\ pc = "loop"
    /\ memory.iteration < max_iterations
    /\ \E html \in BOOLEAN :
           LET reply == assistant_reply(memory)
           IN  memory' = IF html THEN pointer_persisted(reply)
                         ELSE set_chat_memory(reply, reply.conversation_messages)
    /\ pc' = "prompt"
    /\ UNCHANGED <<render_vars, merge_vars, repair_vars, page_vars, overlay>>

\* the loop ran out (lines 1238-1274): with a tool output, one more request
\* over the raw result, and a failing request leaves run through its outer
\* handler (lines 1276-1278); with none, the list is persisted as it is
FinalReasoning ==
    /\ pc = "loop"
    /\ memory.iteration = max_iterations
    /\ \E outcome \in {"failed", "answered", "nothing"} :
           LET asked == append_message(memory)
           IN  memory' = CASE outcome = "failed"   -> asked
                           [] outcome = "answered" -> pointer_persisted(asked)
                           [] outcome = "nothing"  ->
                                  set_chat_memory(memory, memory.conversation_messages)
    /\ pc' = "prompt"
    /\ UNCHANGED <<render_vars, merge_vars, repair_vars, page_vars, overlay>>

\* an interrupt while run is under way (lines 1396-1402)
InterruptRun ==
    /\ pc = "loop"
    /\ memory' = set_chat_memory(memory, memory.chat_memories)
    /\ pc' = "prompt"
    /\ UNCHANGED <<render_vars, merge_vars, repair_vars, page_vars, overlay>>

NextMemory ==
    \/ OpenSession
    \/ QuitSession
    \/ StartTurn
    \/ ApiError
    \/ PlanIteration
    \/ ToolIteration
    \/ FinalAnswer
    \/ FinalReasoning
    \/ InterruptRun

SpecMemory == InitMemory /\ [][NextMemory]_vars


(***************************************************************************)
(* Properties of a render request                                          *)
(***************************************************************************)
\* the request was given records (a list or a 'result' wrapper) and has returned
RenderedRecords == pc = "rendered" /\ data_obj.shape \in {"list", "result"}

\* the records the call works on
TheRecords == NormalizeRecords(data_obj)

\* no directive was given (None or the empty string)
NoDirective == chart_type.kind = "none" \/ chart_type.val = <<>>

DatasetLabels == [i \in 1..Len(rendered.datasets) |-> rendered.datasets[i].label]

\* C1: for records whose first record has a numeric candidate, under every
\* directive, each dataset of the built payload has as many data entries as
\* the payload has labels.
C1_DataLengthEqualsLabels ==
    (RenderedRecords /\ numeric_fields(TheRecords) # <<>>)
        => \A i \in 1..Len(rendered.datasets) :
              Len(rendered.datasets[i].data) = Len(rendered.labels)

\* C1 witness: two records, one of them without the label key, built into
\* two line series.
C1_Witness ==
    /\ RenderedRecords
    /\ numeric_fields(TheRecords) # <<>>
    /\ Len(TheRecords) = 2
    /\ \E i \in 1..2 : ~HasKey(TheRecords[i], S_month)
    /\ HasKey(TheRecords[1], S_month)
    /\ Len(rendered.datasets) = 2
    /\ Len(rendered.labels) = 2

\* C4: an explicit directive line, bar, pie, doughnut or donut decides the
\* chart type handed to the renderer (donut as doughnut), whatever the
\* records are.
C4_DirectiveIsAuthoritative ==
    RenderedRecords =>
        /\ chart_type \in {Str(S_line), Str(S_bar), Str(S_pie), Str(S_doughnut)}
              => rendered.chart_type = chart_type.val
        /\ chart_type = Str(S_donut) => rendered.chart_type = S_doughnut

\* C4 witness: records that the bar rule would take (a project name with
\* planned and actual columns) are rendered as pie under the directive pie.
C4_Witness ==
    /\ RenderedRecords
    /\ TheRecords # <<>>
    /\ chart_type = Str(S_pie)
    /\ TheRecords[1].keys = <<S_project, S_planned, S_actual>>
    /\ IsStr(TheRecords[1].val[S_project])
    /\ rendered.chart_type = S_pie

\* the directive, trimmed and lower-cased, is none of the five tokens
Unrecognised ==
    /\ chart_type.kind = "str"
    /\ Lower(Strip(chart_type.val)) \notin {S_line, S_bar, S_pie, S_doughnut, S_donut}

\* C5: a directive that is none of line, bar, pie, doughnut, donut gives the
\* chart type and payload that the same records give with no directive.
C5_UnrecognisedActsAsAbsent ==
    (RenderedRecords /\ Unrecognised)
        => rendered = render_chart_html_from_dataset(data_obj, None)

\* the first record has a project name (a string), a planned and an actual column
NamePlannedActual ==
    /\ TheRecords # <<>>
    /\ {S_project, S_planned, S_actual} \subseteq Range(TheRecords[1].keys)
    /\ IsStr(TheRecords[1].val[S_project])

\* C6: with no directive, records with a name-like string field, a
\* planned-like and an actual-like field give a bar chart labelled by the
\* name field in record order, with exactly the datasets Planned and Actual
\* holding the columns' numbers in record order.
C6_PlannedActualBars ==
    (RenderedRecords /\ NoDirective /\ NamePlannedActual) =>
        /\ rendered.chart_type = S_bar
        /\ DatasetLabels = <<S_Planned, S_Actual>>
        /\ Len(rendered.labels) = Len(TheRecords)
        /\ \A i \in 1..Len(TheRecords) :
              LET r == TheRecords[i]
              IN  /\ (HasKey(r, S_project) /\ IsStr(r.val[S_project]))
                        => rendered.labels[i] = r.val[S_project].val
                  /\ (HasKey(r, S_planned) /\ IsNumber(r.val[S_planned]))
                        => rendered.datasets[1].data[i] = r.val[S_planned]
                  /\ (HasKey(r, S_actual) /\ IsNumber(r.val[S_actual]))
                        => rendered.datasets[2].data[i] = r.val[S_actual]

\* C6 witness: [{project:A, planned:10, actual:8}, {project:B, planned:20,
\* actual:15}] rendered as bars A, B with Planned 10, 20 and Actual 8, 15.
C6_Witness ==
    /\ RenderedRecords
    /\ chart_type = None
    /\ data_obj.items = <<MakeRecord(<<S_project, S_planned, S_actual>>, "a"),
                          MakeRecord(<<S_project, S_planned, S_actual>>, "b")>>
    /\ rendered.chart_type = S_bar
    /\ rendered.labels = <<S_A, S_B>>
    /\ rendered.datasets[1].data = <<Num(10), Num(20)>>
    /\ rendered.datasets[2].data = <<Num(8), Num(15)>>

\* the first record has a project name (a string)
HasNameLabel ==
    /\ TheRecords # <<>>
    /\ HasKey(TheRecords[1], S_project)
    /\ IsStr(TheRecords[1].val[S_project])

\* C7 as claimed: with no directive a bar chart is selected only for a name
\* label with both a planned-like and an actual-like field.
C7_BarOnlyWithBothGroups ==
    (RenderedRecords /\ NoDirective /\ rendered.chart_type = S_bar)
        => (HasNameLabel /\ {S_planned, S_actual} \subseteq Range(TheRecords[1].keys))

\* C7 amended: with no directive a bar chart is selected exactly for a name
\* label with a planned-like or an actual-like field, with one dataset per
\* group that is present.
C7_BarWithEitherGroup ==
    (RenderedRecords /\ NoDirective) =>
        /\ rendered.chart_type = S_bar
              <=> (HasNameLabel /\ {S_planned, S_actual} \cap Range(TheRecords[1].keys) # {})
        /\ rendered.chart_type = S_bar
              => DatasetLabels =
                    (IF HasKey(TheRecords[1], S_planned) THEN <<S_Planned>> ELSE <<>>)
                    \o (IF HasKey(TheRecords[1], S_actual) THEN <<S_Actual>> ELSE <<>>)

\* C7 witness: a project name with an actual column only, rendered as a bar
\* chart with the single dataset Actual.
C7_Witness ==
    /\ RenderedRecords
    /\ NoDirective
    /\ HasNameLabel
    /\ TheRecords[1].keys = <<S_project, S_actual>>
    /\ rendered.chart_type = S_bar
    /\ DatasetLabels = <<S_Actual>>

\* the string-valued and the number-valued fields of the first record
StrFields == {k \in Range(TheRecords[1].keys) : IsStr(TheRecords[1].val[k])}

NumFields == {k \in Range(TheRecords[1].keys) : IsNumber(TheRecords[1].val[k])}

\* the first record has one string field, of a non-temporal name, exactly one
\* numeric field, and no planned-like or actual-like field
OneCategoryOneNumber ==
    /\ TheRecords # <<>>
    /\ Cardinality(StrFields) = 1
    /\ Cardinality(NumFields) = 1
    /\ \A k \in StrFields : ~IsTimeLike(k)
    /\ \A k \in Range(TheRecords[1].keys) :
          ~ContainsAny(Lower(k), PlannedTokens \cup ActualTokens)

\* a pie of the one numeric field over the one string field: a single
\* dataset named after the numeric field, labels and numbers in record
\* order, pairwise distinct segment colours
IsPieOf(cat, num) ==
    /\ rendered.chart_type = S_pie
    /\ DatasetLabels = <<num>>
    /\ Len(rendered.labels) = Len(TheRecords)
    /\ \A i \in 1..Len(TheRecords) :
          LET r == TheRecords[i]
          IN  /\ (HasKey(r, cat) /\ IsStr(r.val[cat])) => rendered.labels[i] = r.val[cat].val
              /\ (HasKey(r, num) /\ IsNumber(r.val[num]))
                    => rendered.datasets[1].data[i] = r.val[num]
    /\ rendered.datasets[1].backgroundColor.arr
    /\ LET colours == rendered.datasets[1].backgroundColor.c
       IN  /\ Len(colours) = Len(rendered.labels)
           /\ \A i, j \in 1..Len(colours) : i # j => colours[i] # colours[j]

\* colours stay distinct up to as many segments as the palette has entries
PaletteSeparatesSegments ==
    \A n \in 1..Len(PiePalette) :
        LET colours == bg_colors([i \in 1..n |-> S_A])
        IN  \A i, j \in 1..n : i # j => colours[i] # colours[j]

TemporalLabelOneNumber ==
    /\ TheRecords # <<>>
    /\ Cardinality(StrFields) = 1
    /\ \A k \in StrFields : IsTimeLike(k)
    /\ Cardinality(NumFields) = 1
    /\ \A k \in NumFields : ~IsTimeLike(k)

\* C9: with no directive, records whose only label is a temporal field, with
\* exactly one numeric field, are rendered as a line chart, never as a pie.
C9_TemporalLabelGivesLine ==
    (RenderedRecords /\ NoDirective /\ TemporalLabelOneNumber)
        => rendered.chart_type = S_line

\* C10: whenever records with a numeric candidate are handed to the renderer
\* as pie or doughnut, by the heuristic or by an explicit directive, the
\* payload has exactly one dataset, coloured by an array with one entry per
\* label.
C10_PieHasOneColouredDataset ==
    (RenderedRecords /\ numeric_fields(TheRecords) # <<>>
        /\ rendered.chart_type \in {S_pie, S_doughnut}) =>
        /\ Len(rendered.datasets) = 1
        /\ rendered.datasets[1].backgroundColor.arr
        /\ Len(rendered.datasets[1].backgroundColor.c) = Len(rendered.labels)

(***************************************************************************)
(* Properties of a merged plan                                             *)
(***************************************************************************)
\* the plan has been merged into a payload
Merged == pc = "merged" /\ merged_payload.made

\* the series the merge built from the plan results
InputSeries == all_series(plan_results)

\* C2: the merged label axis holds every label of every input series exactly
\* once and nothing else; each output dataset holds, at each label, a value
\* its series has for that label, and 0 where the series lacks the label.
C2_UnionAxisZeroFilled ==
    Merged =>
        LET labels == merged_payload.labels
            out == merged_payload.datasets
            series == InputSeries
        IN  /\ \A i \in 1..Len(series) :
                  \A l \in Range(series[i].labels) : \E p \in 1..Len(labels) : labels[p] = l
            /\ \A p \in 1..Len(labels) :
                  \E i \in 1..Len(series) : labels[p] \in Range(series[i].labels)
            /\ \A p, q \in 1..Len(labels) : p # q => labels[p] # labels[q]
            /\ Len(out) = Len(series)
            /\ \A i \in 1..Len(out) :
                  /\ Len(out[i].data) = Len(labels)
                  /\ \A p \in 1..Len(labels) :
                        LET s == series[i]
                        IN  IF labels[p] \in Range(s.labels)
                            THEN \E j \in 1..Len(s.labels) :
                                    s.labels[j] = labels[p] /\ out[i].data[p] = s.data[j]
                            ELSE out[i].data[p] = Num(0)

\* C2 witness: two series that share a label and each have one of their own,
\* so that both datasets carry a filled-in 0.
C2_Witness ==
    /\ Merged
    /\ Len(InputSeries) = 2
    /\ Range(InputSeries[1].labels) \cap Range(InputSeries[2].labels) # {}
    /\ Range(InputSeries[1].labels) \ Range(InputSeries[2].labels) # {}
    /\ Range(InputSeries[2].labels) \ Range(InputSeries[1].labels) # {}
    /\ Len(merged_payload.labels) = 3

\* the plan results of the example: Jan 10, Feb 20 merged with Feb 5, Mar 15
MergeExample ==
    /\ pc = "merged"
    /\ plan_results.keys = <<S_A, S_B>>
    /\ plan_results.val[S_A] = Parsed("list", Pick(ToolRows(S_A), {1, 2}))
    /\ plan_results.val[S_B] = Parsed("list", Pick(ToolRows(S_B), {1, 2}))

\* C3 as claimed: the example merges to Jan, Feb, Mar with 10, 20, 0 and
\* 0, 5, 15.
C3_ExampleInCalendarOrder ==
    MergeExample =>
        /\ merged_payload.labels = <<S_Jan, S_Feb, S_Mar>>
        /\ merged_payload.datasets[1].data = <<Num(10), Num(20), Num(0)>>
        /\ merged_payload.datasets[2].data = <<Num(0), Num(5), Num(15)>>

\* C3 amended: month names are no YYYY-MM labels, so the axis is in string
\* order: Feb, Jan, Mar with 20, 10, 0 and 5, 0, 15.
C3_ExampleInStringOrder ==
    MergeExample =>
        /\ merged_payload.made
        /\ merged_payload.labels = <<S_Feb, S_Jan, S_Mar>>
        /\ merged_payload.datasets[1].data = <<Num(20), Num(10), Num(0)>>
        /\ merged_payload.datasets[2].data = <<Num(5), Num(0), Num(15)>>

\* C3 witness: the example has been merged.
C3_Witness == MergeExample /\ merged_payload.made /\ Len(merged_payload.datasets) = 2

(***************************************************************************)
(* Properties of a render request: empty and unrecognised inputs           *)
(***************************************************************************)
\* the request was given an empty list, or a wrapper of an empty list
EmptyRecords ==
    pc = "rendered" /\ data_obj.shape \in {"list", "result"} /\ data_obj.items = <<>>

\* the payload is the placeholder: the label x and one dataset 'value' of 0
IsPlaceholder ==
    /\ ~rendered.raised
    /\ rendered.labels = <<S_x>>
    /\ Len(rendered.datasets) = 1
    /\ rendered.datasets[1].label = S_value
    /\ rendered.datasets[1].data = <<Num(0)>>

\* C11: an empty record collection (an empty list, or a wrapper whose result
\* is an empty list) gives, under every directive, the payload labels ["x"]
\* with exactly one dataset of data [0], and no exception.
C11_EmptyGivesPlaceholder ==
    EmptyRecords =>
        /\ ~rendered.raised
        /\ rendered.labels = <<S_x>>
        /\ Len(rendered.datasets) = 1
        /\ rendered.datasets[1].data = <<Num(0)>>

\* C11 witness: {'result': []} under the directive bar gives the placeholder.
C11_Witness ==
    /\ EmptyRecords
    /\ data_obj.shape = "result"
    /\ chart_type = Str(S_bar)
    /\ rendered.chart_type = S_bar
    /\ IsPlaceholder

\* the input is in no recognised shape: a scalar or None, a map with no list
\* value, a list none of whose items is a map, or a wrapper whose result is
\* no list
UnrecognisedShape ==
    /\ pc = "rendered"
    /\ \/ data_obj.shape \in {"scalar", "map", "result_falsy", "result_number", "result_text"}
       \/ /\ data_obj.shape = "list"
          /\ data_obj.items # <<>>
          /\ \A i \in 1..Len(data_obj.items) : ~data_obj.items[i].isdict

\* C12: an input in no recognised shape gives the placeholder payload and
\* never an exception.
C12_UnrecognisedShapeGivesPlaceholder == UnrecognisedShape => IsPlaceholder

(***************************************************************************)
(* Properties of a render request: fields that signal a running total      *)
(***************************************************************************)
\* the name signals a cumulative / running total
CumulativeNamed(k) == ContainsAny(Lower(k), CumulativeTokens)

\* C13: when the first record has a numeric candidate, no dataset of the
\* payload is a field whose name signals a running total; records with the
\* fields month, hours, hours_cumulative, rendered with no directive or as
\* line, have exactly one dataset, hours.
C13_CumulativeFieldNotCharted ==
    (RenderedRecords /\ numeric_fields(TheRecords) # <<>>) =>
        /\ \A i \in 1..Len(rendered.datasets) : ~CumulativeNamed(rendered.datasets[i].label)
        /\ (/\ TheRecords[1].keys = <<S_month, S_hours, S_hours_cumulative>>
            /\ (NoDirective \/ chart_type = Str(S_line)))
              => DatasetLabels = <<S_hours>>

\* C13 witness: [{month, hours: 10, hours_cumulative}, {month, hours: 20,
\* hours_cumulative}] is drawn as the single line hours 10, 20.
C13_Witness ==
    /\ RenderedRecords
    /\ chart_type = None
    /\ data_obj.items = <<MakeRecord(<<S_month, S_hours, S_hours_cumulative>>, "a"),
                          MakeRecord(<<S_month, S_hours, S_hours_cumulative>>, "b")>>
    /\ IsNumber(data_obj.items[1].val[S_hours_cumulative])
    /\ rendered.chart_type = S_line
    /\ DatasetLabels = <<S_hours>>
    /\ rendered.datasets[1].data = <<Num(10), Num(20)>>

\* every number-valued field of the first record has a cumulative name
AllNumericCumulative ==
    /\ TheRecords # <<>>
    /\ NumFields # {}
    /\ \A k \in NumFields : CumulativeNamed(k)

\* C14: when every numeric field has a cumulative name, the payload (here
\* with no directive) has one dataset per such field, carrying the records'
\* values, also when they are all zero, and never the placeholder dataset.
C14_CumulativeRetained ==
    (RenderedRecords /\ NoDirective /\ AllNumericCumulative) =>
        /\ DatasetLabels = SelectSeq(TheRecords[1].keys, LAMBDA k : k \in NumFields)
        /\ \A d \in 1..Len(rendered.datasets) : \A i \in 1..Len(TheRecords) :
              LET r == TheRecords[i]
                  k == rendered.datasets[d].label
              IN  (HasKey(r, k) /\ IsNumber(r.val[k]))
                      => rendered.datasets[d].data[i] = r.val[k]

(***************************************************************************)
(* Properties of a render request: pre-built payloads                      *)
(***************************************************************************)
\* the request was given a pre-built payload and has returned
RenderedPayload == pc = "rendered" /\ data_obj.shape = "payload"

\* C15: a pre-built payload is embedded in the page unchanged, under every
\* directive: the embedded labels and datasets are the input's.
C15_PayloadEmbeddedUnchanged ==
    RenderedPayload =>
        /\ ~rendered.raised
        /\ rendered.document.labels = data_obj.labels
        /\ rendered.document.datasets = data_obj.datasets

(***************************************************************************)
(* Properties of a plan: what is merged and what is forwarded              *)
(***************************************************************************)
\* the plan's iteration is over: merged, and forwarded or not
PlanDone == pc = "done"

\* a step result from which no series comes: an error or plain text, an
\* empty list, no list of records, or records without a label field or
\* without a numeric field
YieldsNoSeries(parsed) ==
    \/ parsed.shape \in {"error", "text"}
    \/ parsed.items = <<>>
    \/ ~parsed.items[1].isdict
    \/ merge_label_key(parsed.items[1]) = NoKey
    \/ merge_numeric_key(parsed.items[1]) = NoKey

\* C17: when no plan-step result yields a series, the merge returns no
\* result and no merged chart is forwarded to the renderer.
C17_NoSeriesNoChart ==
    (PlanDone /\ \A k \in Range(plan_results.keys) : YieldsNoSeries(plan_results.val[k]))
        => /\ ~merged_payload.made
           /\ ~forwarded.sent
           /\ last_tool_output = "plan_results"

\* C17 witness: a plan of two steps, one failed and one whose records have
\* no numeric field, ends with nothing forwarded.
C17_Witness ==
    /\ PlanDone
    /\ Len(plan_results.keys) = 2
    /\ \E k \in Range(plan_results.keys) : plan_results.val[k].shape = "error"
    /\ \E k \in Range(plan_results.keys) :
          /\ plan_results.val[k].shape = "list"
          /\ plan_results.val[k].items # <<>>
          /\ merge_numeric_key(plan_results.val[k].items[1]) = NoKey
    /\ ~forwarded.sent
    /\ last_tool_output = "plan_results"

\* the steps that returned a well-formed series
SucceededSteps == {i \in 1..Len(settled) : settled[i].series}

\* C18: the merge runs only when every step of the plan has settled, and
\* when a step's tool call has failed, the series of every step that
\* succeeded is still merged.
C18_FailedStepKeepsOtherSeries ==
    (pc \in {"merged", "done"}) =>
        /\ plan = <<>>
        /\ (\E i \in 1..Len(settled) : settled[i].failed) =>
              /\ Len(merged_payload.datasets) = Cardinality(SucceededSteps)
              /\ \A i \in SucceededSteps :
                    \E d \in 1..Len(merged_payload.datasets) :
                        LET label == merged_payload.datasets[d].label
                            tool == settled[i].tool
                        IN  /\ Len(label) > Len(tool)
                            /\ SubSeq(label, 1, Len(tool) + 1) = tool \o <<":">>


(***************************************************************************)
(* Repair of a saved document                                              *)
(***************************************************************************)
\* the repair step has run on a document that lacks the embedded payload
\* and any chart initialisation
RepairTriggered == pc = "repaired" /\ ~html_text.chart_init

\* the literal array the repair step reads: the assigned one, else the bare one
LiteralArray(doc) == IF doc.assigned.found THEN doc.assigned ELSE doc.bare

\* the records a literal array yields: none when it is absent or unparsable
ArrayRecords(arr) ==
    IF ~arr.found \/ arr.text = "broken" THEN <<>>
    ELSE SelectSeq(arr.items, LAMBDA r : r.isdict)

\* C19: when the repair step is triggered and neither the literal-array
\* strategy nor the stat-fragment strategy extracts data (the document holds
\* no record in a literal array and no stat pair), the file is left with the
\* content it had: nothing is written.
C19_UnrecoverableLeavesFileUnchanged ==
    (/\ RepairTriggered
     /\ ArrayRecords(LiteralArray(html_text)) = <<>>
     /\ html_text.cards = <<>>)
    => ~file_text.written

\* Strategy 1 found an assignment of a literal array of records and parsed it
ParsedAssignedRecords ==
    /\ html_text.assigned.found
    /\ html_text.assigned.text # "broken"
    /\ html_text.assigned.items # <<>>
    /\ \A i \in 1..Len(html_text.assigned.items) : html_text.assigned.items[i].isdict

\* C20: when Strategy 1 finds and parses a literal array of records, the
\* payload of the repaired document is the one the Series Builder produces
\* from those records: one label per record, and at least one dataset when
\* the records have a numeric field.
C20_RepairedPayloadFromRecords ==
    (RepairTriggered /\ ParsedAssignedRecords) =>
        LET records == html_text.assigned.items
            built   == render_chart_html_from_dataset(Input("list", records, <<>>, <<>>), None)
            numeric == \E i \in 1..Len(records) : \E k \in Range(records[i].keys) :
                           IsNumber(records[i].val[k])
        IN  /\ file_text.written
            /\ file_text.labels = built.labels
            /\ file_text.datasets = built.datasets
            /\ Len(file_text.labels) = Len(records)
            /\ numeric => Len(file_text.datasets) >= 1

(***************************************************************************)
(* Properties of the page                                                  *)
(***************************************************************************)
\* the page was loaded and its chart library failed to initialise
LibraryFailedOnLoad == pc = "loaded" /\ page.library_failed

\* C21: when the chart library fails to initialise on load, the page of
\* every chart type (line, bar, pie, doughnut) shows a banner that carries
\* the error's message.
C21_InitFailureShowsBanner ==
    (LibraryFailedOnLoad /\ rendered.chart_type \in {S_line, S_bar, S_pie, S_doughnut}) =>
        /\ page.banner
        /\ \E error \in LibraryErrors \ {<<>>} : Contains(page.banner_text, error)

\* C22: under every title and for every payload, the chart-data element of
\* the page holds the payload that was rendered, also when the title or a
\* label is a marker of the template.
C22_EmbeddedPayloadParsesBack ==
    (pc \in {"built", "loaded"}) =>
        /\ rendered.document.labels = rendered.labels
        /\ rendered.document.datasets = rendered.datasets

(***************************************************************************)
(* Properties of the values and labels of a built payload                  *)
(***************************************************************************)
\* the value the builder is to produce for a raw cell: a number is kept, a
\* string is parsed after everything but digits, dot and minus is cut out,
\* and None or an unparsable rest gives None in a line chart and 0 in a pie
\* or bar chart
CoercedValue(raw, chart_t) ==
    LET gap == IF chart_t = S_line THEN None ELSE Num(0)
    IN  IF IsNone(raw) THEN gap
        ELSE IF IsNumber(raw) THEN raw
        ELSE IF Float(Str(StripNonNumeric(raw.val))).kind = "raised" THEN gap
        ELSE Float(Str(StripNonNumeric(raw.val)))

\* C23: in a line or pie chart built from records, every dataset named
\* after a field holds, for each record, the coerced value of that field:
\* None (line) or 0 (pie) for a null or unparsable cell, and for a string
\* the number left after stripping all but digits, dot and minus.
C23_ValuesCoercedByStripping ==
    (RenderedRecords /\ ~rendered.raised /\ rendered.chart_type \in {S_line, S_pie}) =>
        LET records == NormalizeRecords(data_obj)
        IN  \A d \in 1..Len(rendered.datasets) :
                (records # <<>> /\ rendered.datasets[d].label \in Range(records[1].keys)) =>
                    \A i \in 1..Len(records) :
                        rendered.datasets[d].data[i] =
                            CoercedValue(Get(records[i], rendered.datasets[d].label, None),
                                         rendered.chart_type)

\* the field the labels are to be read from: the first field with a
\* temporal token in its name, else the name-like field, else none
ClaimedLabelField(records) ==
    IF label_field(records) # NoKey THEN label_field(records) ELSE name_field(records)

\* C24: in a line chart built from records, label i is the text of record
\* i's value of the label field (the temporal field, else the name-like
\* field); without any label field it is the record's position as a string.
C24_LineLabelsFromLabelField ==
    (RenderedRecords /\ ~rendered.raised /\ rendered.chart_type = S_line) =>
        LET records == NormalizeRecords(data_obj)
            lf      == ClaimedLabelField(records)
        IN  records # <<>> =>
                /\ Len(rendered.labels) = Len(records)
                /\ \A i \in 1..Len(records) :
                       IF lf = NoKey
                       THEN rendered.labels[i] \in {NatToStr(i - 1), NatToStr(i)}
                       ELSE HasKey(records[i], lf) =>
                                rendered.labels[i] = PyStr(records[i].val[lf])

(***************************************************************************)
(* Properties of the merged label axis                                     *)
(***************************************************************************)
\* a sooner than b, for labels of the form YYYY-MM
ChronoLess(a, b) ==
    LET ya == DigitsToNat(SubSeq(a, 1, 4))
        yb == DigitsToNat(SubSeq(b, 1, 4))
        ma == DigitsToNat(SubSeq(a, 6, 7))
        mb == DigitsToNat(SubSeq(b, 6, 7))
    IN  ya < yb \/ (ya = yb /\ ma < mb)

\* the labels of the input series, in the order the series supply them
SuppliedLabels ==
    LET series == InputSeries
        F[i \in 0..Len(series)] == IF i = 0 THEN <<>> ELSE F[i - 1] \o series[i].labels
    IN  F[Len(series)]

\* C25: the merged label axis is strictly ascending, by calendar time when
\* every label is a YYYY-MM label and by string order otherwise; being
\* strictly ascending, it is fixed by the set of labels alone and not by the
\* order in which the series supplied them.
C25_MergedAxisSorted ==
    Merged =>
        LET labels == merged_payload.labels
            dated  == \A p \in 1..Len(labels) : IsYearMonth(labels[p])
        IN  \A p \in 1..Len(labels) : \A q \in 1..Len(labels) :
                p < q => IF dated THEN ChronoLess(labels[p], labels[q])
                         ELSE StrLess(labels[p], labels[q])

\* C25 witness: an axis of several YYYY-MM labels that were supplied latest
\* first.
C25_Witness ==
    /\ Merged
    /\ Len(merged_payload.labels) >= 2
    /\ \A p \in 1..Len(merged_payload.labels) : IsYearMonth(merged_payload.labels[p])
    /\ \E i, j \in 1..Len(SuppliedLabels) :
           i < j /\ ChronoLess(SuppliedLabels[j], SuppliedLabels[i])

\* C26: whenever Strategy 1 yields no parsed array of records, also when an
\* array-like text is found that cannot be parsed, a document with stat
\* label/value pairs is repaired from those pairs: the page written has one
\* label per pair and a single dataset with one value per pair.
C26_StatPairsRepairWhenArrayFails ==
    (/\ RepairTriggered
     /\ ArrayRecords(LiteralArray(html_text)) = <<>>
     /\ html_text.cards # <<>>)
    => /\ file_text.written
       /\ Len(file_text.labels) = Len(html_text.cards)
       /\ Len(file_text.datasets) = 1
       /\ Len(file_text.datasets[1].data) = Len(html_text.cards)

(***************************************************************************)
(* Properties of the tooltip lookup                                        *)
(***************************************************************************)
\* the times of the axis are in ascending order
Ascending(times) == \A i \in 1..(Len(times) - 1) : times[i] <= times[i + 1]

\* the pointer has just moved over the overlay
PointerMoved == pc = "moved"

\* C27: on an axis of n >= 1 date labels in ascending order the tooltip
\* shows, for any pointer position, a row of 0..n-1 whose time is as near
\* to the pointer's time as any, the earlier time of two equally near ones;
\* on an axis whose labels are no dates it shows row
\* floor(offset / band step), kept within 0..n-1.
C27_TooltipShowsNearestLabel ==
    PointerMoved =>
        LET n  == overlay.n
            at == overlay.pointer
            i  == overlay.shown
        IN  /\ i \in 0..(n - 1)
            /\ (overlay.isTime /\ Ascending(overlay.times)) =>
                   \A j \in 1..n :
                       /\ Abs(overlay.times[i + 1] - at) <= Abs(overlay.times[j] - at)
                       /\ Abs(overlay.times[i + 1] - at) = Abs(overlay.times[j] - at)
                              => overlay.times[i + 1] <= overlay.times[j]
            /\ ~overlay.isTime =>
                   /\ at < 0 => i = 0
                   /\ at >= InnerWidth => i = n - 1
                   /\ (at >= 0 /\ at < InnerWidth) =>
                          (i * InnerWidth <= at * n /\ at * n < (i + 1) * InnerWidth)

\* C27 witness: the pointer is exactly between the times of two labels and
\* the tooltip shows the earlier one.
C27_Witness ==
    /\ PointerMoved
    /\ overlay.isTime /\ Ascending(overlay.times)
    /\ overlay.shown >= 0
    /\ overlay.shown + 2 <= overlay.n
    /\ overlay.times[overlay.shown + 1] < overlay.pointer
    /\ overlay.pointer - overlay.times[overlay.shown + 1]
           = overlay.times[overlay.shown + 2] - overlay.pointer

(***************************************************************************)
(* One dataset per plan step                                               *)
(***************************************************************************)
\* C28: when every step of a plan of N steps returned chartable records,
\* the merged payload has N datasets, one per step, also when several steps
\* call the same tool: no step's result replaces another's.
C28_OneDatasetPerStep ==
    (PlanDone /\ SucceededSteps = 1..Len(settled)) =>
        /\ merged_payload.made
        /\ Len(merged_payload.datasets) = Len(settled)

(***************************************************************************)
(* When the placeholder is produced                                        *)
(***************************************************************************)
\* the directives that name a chart type
RecognisedDirectives == {Str(S_line), Str(S_bar), Str(S_pie), Str(S_doughnut)}

\* C29: for records with at least one numeric candidate and a recognised
\* explicit directive (bar, pie, doughnut or line) the payload is not the
\* placeholder: its datasets are built from the records.
C29_NoPlaceholderWithNumericCandidate ==
    (/\ RenderedRecords
     /\ ~rendered.raised
     /\ chart_type \in RecognisedDirectives
     /\ numeric_fields(NormalizeRecords(data_obj)) # <<>>)
    => rendered.datasets # Placeholder(rendered.labels)

(***************************************************************************)
(* Properties of the chat memory                                           *)
(***************************************************************************)
\* C30: between the calls and the turns of run, the list in the file of the
\* chat id holds at most MEMORY_MAX_MESSAGES messages and is the most recent
\* suffix of the conversation, in the order the messages were said
C30_PersistedIsRecentSuffix ==
    (pc \in {"prompt", "closed"} /\ memory.exists) =>
        LET n == Len(memory.disk)
        IN  /\ n <= MEMORY_MAX_MESSAGES
            /\ \A i \in 1..n : memory.disk[i] = memory.said - n + i

====
